---- MODULE Spec2Model ----
(***************************************************************************)
(* Model of the business-management form of OscarIvaVP/inventario-ventas   *)
(* (src/prueba.py, the revision with payments, and src/app.py, the         *)
(* revision before it).  The state is the remote spreadsheet (the sheets   *)
(* Ventas, Compras, Pagos and Inventario, and the master sheets Productos, *)
(* Clientes and Proveedores with their cache) plus, per browser session,   *)
(* the session-scoped carts, the client and supplier widgets and the       *)
(* position and local variables of the script run in progress.  Every      *)
(* remote call of a handler is one step, so that the runs of two sessions  *)
(* interleave between remote calls.                                        *)
(*                                                                         *)
(* Money is counted in thousandths of a currency unit (0.01 is 10), a      *)
(* timestamp is the number of its calendar month.  A name is a sequence of *)
(* tokens in which the token Sep stands for the substring " - ".  A cell   *)
(* that aggregation reads as a number is <<"n", v>> (a number) or          *)
(* <<"t", 0>> (a text that is not a number).                               *)
(***************************************************************************)
EXTENDS Integers, Sequences, FiniteSets, TLC

VARIABLES
    ventas,         \* data rows of the sheet Ventas
    compras,        \* data rows of the sheet Compras
    pagos,          \* data rows of the sheet Pagos
    inventario,     \* the sheet Inventario: header row and data rows
    reloj,          \* datetime.now(), as a month number
    ids,            \* number of identifiers uuid4 has handed out
    pc,             \* per session: the remote call its script run is at
    venta_actual,   \* per session: st.session_state.venta_actual
    compra_actual,  \* per session: st.session_state.compra_actual
    loc,            \* per session: local variables of the run in progress
    vista,          \* per session: what the page last rendered
    maestros,       \* data rows of the sheets Productos, Clientes, Proveedores
    cache_data,     \* st.cache_data: the entry of load_master_data, or Nada
    entrada         \* per session: the client and supplier widgets

hojas == <<ventas, compras, pagos, inventario>>
sesion == <<pc, venta_actual, compra_actual, loc, vista>>
gestion == <<maestros, cache_data, entrada>>
vars == <<ventas, compras, pagos, inventario, reloj, ids, pc, venta_actual,
          compra_actual, loc, vista, maestros, cache_data, entrada>>

----------------------------------------------------------------------------
(* Bounds of the model. *)

\* rows per log in the initial sheets of the reconciliation specifications
MaxFilas == 2
\* calendar months the clock runs through
MaxMes == 2
\* lines a cart holds
MaxCarrito == 1
\* identifiers uuid4 hands out
MaxIds == 3

----------------------------------------------------------------------------
(* Values. *)

Sesiones == {"s1", "s2"}

Sep == " - "

Bata == <<"Bata">>
BataKids == <<"Bata", Sep, "Kids">>
TallaS == <<"S">>
TallaM == <<"M">>
TallaSM == <<"S", Sep, "M">>

\* PRODUCTOS: the sizes of each product of the master list
PRODUCTOS == [p \in {Bata, BataKids} |->
                 IF p = Bata THEN {TallaS, TallaM} ELSE {TallaS}]

Num(v) == <<"n", v>>
Texto == <<"t", 0>>

Min2(a, b) == IF a < b THEN a ELSE b

\* position of a token in the order of Python's string comparison
RangoToken(t) ==
    CASE t = Sep -> 0
      [] t = "Bata" -> 1
      [] t = "Kids" -> 2
      [] t = "M" -> 3
      [] t = "S" -> 4

RECURSIVE MenorStr(_, _)
MenorStr(a, b) ==
    IF a = <<>> THEN b # <<>>
    ELSE IF b = <<>> THEN FALSE
    ELSE IF Head(a) = Head(b) THEN MenorStr(Tail(a), Tail(b))
    ELSE RangoToken(Head(a)) < RangoToken(Head(b))

----------------------------------------------------------------------------
(* pandas helpers used by the aggregations. *)

\* variant: a cell that is not a number counts as one unit
to_numeric_uno(c) == IF c[1] = "n" THEN c[2] ELSE 1

\* pd.to_numeric(col, errors='coerce').fillna(0) on one cell
to_numeric(c) == IF c[1] = "n" THEN c[2] ELSE 0

\* producto.astype(str) + " - " + talla.astype(str)
SKU(producto, talla) == producto \o <<Sep>> \o talla

\* variant: split(' - ', n=1), the string is cut at its first separator only
str_split_n1(s) ==
    IF \A i \in 1..Len(s) : s[i] # Sep THEN <<s>>
    ELSE LET k == CHOOSE i \in 1..Len(s) :
                      s[i] = Sep /\ \A j \in 1..(i - 1) : s[j] # Sep
         IN <<SubSeq(s, 1, k - 1), SubSeq(s, k + 1, Len(s))>>

\* one row of Series.str.split(' - '): the parts between the separators
RECURSIVE str_split(_)
str_split(s) ==
    IF \A i \in 1..Len(s) : s[i] # Sep THEN <<s>>
    ELSE LET k == CHOOSE i \in 1..Len(s) :
                      s[i] = Sep /\ \A j \in 1..(i - 1) : s[j] # Sep
         IN <<SubSeq(s, 1, k - 1)>> \o str_split(SubSeq(s, k + 1, Len(s)))

RECURSIVE SumaSeq(_)
SumaSeq(s) == IF s = <<>> THEN 0 ELSE Head(s) + SumaSeq(Tail(s))

RECURSIVE Filtrar(_, _)
\* the rows of df whose index is in the set idx, in order
Filtrar(df, idx) ==
    IF df = <<>> THEN <<>>
    ELSE LET n == Len(df)
             r == Filtrar(SubSeq(df, 1, n - 1), idx)
         IN IF n \in idx THEN Append(r, df[n]) ELSE r

RECURSIVE Ordenar(_)
\* the strings of a finite set in increasing order
Ordenar(S) ==
    IF S = {} THEN <<>>
    ELSE LET m == CHOOSE a \in S : \A b \in S \ {a} : MenorStr(a, b)
         IN <<m>> \o Ordenar(S \ {m})

\* df.groupby('SKU')['Cantidad'].sum() after the to_numeric of Cantidad: a
\* function from the SKUs of the log to their summed quantity
stock_por_sku(df) ==
    [k \in {SKU(df[i].Producto, df[i].Talla) : i \in 1..Len(df)} |->
        SumaSeq([j \in 1..Len(df) |->
                    IF SKU(df[j].Producto, df[j].Talla) = k
                    THEN to_numeric(df[j].Cantidad) ELSE 0])]

ColumnasInventario ==
    <<"SKU", "Producto", "Talla", "Unidades Compradas", "Unidades Vendidas",
      "Stock Actual", "Fecha Actualizacion">>

\* variant: an incremental update, the units already stored in the sheet are
\* added to the sums of the logs
merge_incremental(stock_comprado, stock_vendido) ==
    LET claves == Ordenar(DOMAIN stock_comprado \cup DOMAIN stock_vendido)
        previo(k, campo) ==
            SumaSeq([j \in 1..Len(inventario.filas) |->
                        IF inventario.filas[j].SKU = k
                        THEN inventario.filas[j][campo] ELSE 0])
    IN [i \in 1..Len(claves) |->
           [SKU |-> claves[i],
            UnidadesCompradas |->
                previo(claves[i], "UnidadesCompradas")
                + (IF claves[i] \in DOMAIN stock_comprado
                   THEN stock_comprado[claves[i]] ELSE 0),
            UnidadesVendidas |->
                previo(claves[i], "UnidadesVendidas")
                + (IF claves[i] \in DOMAIN stock_vendido
                   THEN stock_vendido[claves[i]] ELSE 0)]]

\* pd.merge(stock_comprado, stock_vendido, on='SKU', how='outer').fillna(0)
merge_outer(stock_comprado, stock_vendido) ==
    LET claves == Ordenar(DOMAIN stock_comprado \cup DOMAIN stock_vendido)
    IN [i \in 1..Len(claves) |->
           [SKU |-> claves[i],
            UnidadesCompradas |->
                IF claves[i] \in DOMAIN stock_comprado
                THEN stock_comprado[claves[i]] ELSE 0,
            UnidadesVendidas |->
                IF claves[i] \in DOMAIN stock_vendido
                THEN stock_vendido[claves[i]] ELSE 0]]

\* number of columns of SKU.str.split(' - ', expand=True): the largest number
\* of parts of a row, none for an empty frame
split_columnas(merged) ==
    IF merged = <<>> THEN 0
    ELSE CHOOSE n \in {Len(str_split(merged[i].SKU)) : i \in 1..Len(merged)} :
             \A i \in 1..Len(merged) : Len(str_split(merged[i].SKU)) <= n

\* inventario_df[['Producto', 'Talla']] = ... raises ValueError ("Columns must
\* be same length as key") unless the split frame has exactly two columns
split_ok(merged) == split_columnas(merged) = 2

\* variant: the early return for empty logs is missing
sin_datos_nunca(compras_df, ventas_df) == FALSE

\* compras_df.empty and ventas_df.empty
sin_datos(compras_df, ventas_df) == compras_df = <<>> /\ ventas_df = <<>>

\* the frame actualizar_inventario builds from the merged stock
inventario_df(merged, ahora) ==
    [i \in 1..Len(merged) |->
        [SKU |-> merged[i].SKU,
         Producto |-> str_split(merged[i].SKU)[1],
         Talla |-> str_split(merged[i].SKU)[2],
         UnidadesCompradas |-> merged[i].UnidadesCompradas,
         UnidadesVendidas |-> merged[i].UnidadesVendidas,
         StockActual |->
             merged[i].UnidadesCompradas - merged[i].UnidadesVendidas,
         FechaActualizacion |-> ahora]]

\* variant: the sheet is not cleared before it is written
hoja_sin_clear(hoja) == hoja

\* worksheet.clear(): every cell of the sheet is emptied
hoja_clear(hoja) == [encabezado |-> <<>>, filas |-> <<>>]

\* worksheet.update(values): the values are written from cell A1 on; the cells
\* below the written range keep what they held
hoja_update(hoja, encabezado, filas) ==
    [encabezado |-> encabezado,
     filas |-> filas \o SubSeq(hoja.filas, Len(filas) + 1, Len(hoja.filas))]

\* get_data: the data rows of a sheet as a DataFrame (empty when none)
get_data(hoja) == hoja

----------------------------------------------------------------------------
(* Session state. *)

LocInicial ==
    [origen |-> "",              \* the handler that called actualizar_inventario
     compras_df |-> <<>>,        \* compras_df (compras_df_full in Finanzas)
     ventas_df |-> <<>>,         \* ventas_df (ventas_df_full in Finanzas)
     inventario_df |-> <<>>,     \* actualizar_inventario: inventario_df
     id_venta |-> 0,             \* id_venta, id_venta_pago
     fecha |-> 0,                \* fecha_venta
     estado_pago |-> "",         \* estado_pago
     monto |-> 0,                \* monto_pago
     saldo |-> 0,                \* venta_info['Saldo Pendiente']
     cell_list |-> <<>>]         \* cell_list still to be updated

VistaInicial ==
    [pagina |-> "", error |-> FALSE, refrescado |-> FALSE, tabla |-> <<>>]

\* st.cache_data without the entry of load_master_data
Nada == <<>>

\* the master lists the sheets hold at first
MaestrosIniciales ==
    [productos |-> <<[NombreProducto |-> "Bata",
                      TallasDisponibles |-> "S,M"],
                     [NombreProducto |-> "Bata - Kids",
                      TallasDisponibles |-> "S"]>>,
     clientes |-> <<"Ana">>,
     proveedores |-> <<"Prov">>]

\* the widgets of the pages Registrar Venta and Registrar Compra: a client
\* and a supplier of the list are selected, no new one is typed
EntradaInicial ==
    [cliente_existente |-> "Ana", cliente_nuevo |-> "",
     proveedor_existente |-> "Prov", proveedor_nuevo |-> ""]

\* the master data as loaded and cached by the first script run, and the
\* widgets as first filled
InitGestion ==
    /\ maestros = MaestrosIniciales
    /\ cache_data = MaestrosIniciales
    /\ entrada = [s \in Sesiones |-> EntradaInicial]

\* the texts of blanks only a text input can be given
Blancos == {" "}

\* str.strip()
strip(texto) == IF texto \in Blancos THEN "" ELSE texto

\* cliente_final = cliente_nuevo.strip() if cliente_nuevo else
\* cliente_existente
cliente_final(s) ==
    IF entrada[s].cliente_nuevo # ""
    THEN strip(entrada[s].cliente_nuevo)
    ELSE entrada[s].cliente_existente

\* proveedor_final = proveedor_nuevo.strip() if proveedor_nuevo else
\* proveedor_existente
proveedor_final(s) ==
    IF entrada[s].proveedor_nuevo # ""
    THEN strip(entrada[s].proveedor_nuevo)
    ELSE entrada[s].proveedor_existente

\* the page a script run renders replaces what the session showed; of the
\* pages other than the inventory and the summary of debts nothing is kept
Pagina(s, nombre) ==
    vista' = [vista EXCEPT ![s] = VistaInicial]

\* variant: the step that raised is attempted again
ExcepcionReintenta(s) ==
    /\ pc' = pc
    /\ loc' = loc
    /\ vista' = [vista EXCEPT ![s] = [VistaInicial EXCEPT !.error = TRUE]]

\* an exception ends the script run; the page shows the error
Excepcion(s) ==
    /\ pc' = [pc EXCEPT ![s] = "idle"]
    /\ loc' = [loc EXCEPT ![s] = LocInicial]
    /\ vista' = [vista EXCEPT ![s] = [VistaInicial EXCEPT !.error = TRUE]]

----------------------------------------------------------------------------
(* actualizar_inventario, one step per remote call. *)

\* compras_df = get_data("compras")
InvLeerCompras(s) ==
    /\ pc[s] = "inv_compras"
    /\ loc' = [loc EXCEPT ![s].compras_df = get_data(compras)]
    /\ pc' = [pc EXCEPT ![s] = "inv_ventas"]
    /\ UNCHANGED <<hojas, reloj, gestion, ids, venta_actual, compra_actual,
                   vista>>

\* ventas_df = get_data("ventas") and the computation of inventario_df
InvLeerVentas(s) ==
    /\ pc[s] = "inv_ventas"
    /\ LET compras_df == loc[s].compras_df
           ventas_df == get_data(ventas)
           merged == merge_outer(stock_por_sku(compras_df),
                                 stock_por_sku(ventas_df))
       IN IF sin_datos(compras_df, ventas_df)
          THEN /\ loc' = [loc EXCEPT ![s].compras_df = <<>>,
                                     ![s].inventario_df = <<>>]
               /\ pc' = [pc EXCEPT ![s] = "inv_clear"]
               /\ UNCHANGED vista
          ELSE IF split_ok(merged)
          THEN /\ loc' = [loc EXCEPT ![s].compras_df = <<>>,
                                     ![s].inventario_df =
                                         inventario_df(merged, reloj)]
               /\ pc' = [pc EXCEPT ![s] = "inv_clear"]
               /\ UNCHANGED vista
          ELSE Excepcion(s)
    /\ UNCHANGED <<hojas, reloj, gestion, ids, venta_actual, compra_actual>>

\* sheets["inventario"].clear()
InvClear(s) ==
    /\ pc[s] = "inv_clear"
    /\ inventario' = hoja_clear(inventario)
    /\ pc' = [pc EXCEPT ![s] = "inv_update"]
    /\ UNCHANGED <<ventas, compras, pagos, reloj, gestion, ids, venta_actual,
                   compra_actual, loc, vista>>

\* sheets["inventario"].update([columns] + rows), then back in the caller
InvUpdate(s) ==
    /\ pc[s] = "inv_update"
    /\ inventario' = hoja_update(inventario, ColumnasInventario,
                                 loc[s].inventario_df)
    /\ pc' = [pc EXCEPT ![s] =
                 IF loc[s].origen = "refrescar" THEN "ver_inventario"
                 ELSE "idle"]
    /\ loc' = [loc EXCEPT ![s] = LocInicial]
    /\ UNCHANGED <<ventas, compras, pagos, reloj, gestion, ids, venta_actual,
                   compra_actual, vista>>

\* sheets["inventario"].update(...) fails: gspread raises, nothing catches it
InvUpdateFalla(s) ==
    /\ pc[s] = "inv_update"
    /\ Excepcion(s)
    /\ UNCHANGED <<hojas, reloj, gestion, ids, venta_actual, compra_actual>>

actualizar_inventario(s) ==
    InvLeerCompras(s) \/ InvLeerVentas(s) \/ InvClear(s) \/ InvUpdate(s)

----------------------------------------------------------------------------
(* Page "Ver Inventario". *)

\* the button "Refrescar Inventario": the run calls actualizar_inventario
Refrescar(s) ==
    /\ pc[s] = "idle"
    /\ pc' = [pc EXCEPT ![s] = "inv_compras"]
    /\ loc' = [loc EXCEPT ![s].origen = "refrescar"]
    /\ UNCHANGED <<hojas, reloj, gestion, ids, venta_actual, compra_actual,
                   vista>>

\* inventario_df = get_data("inventario") and its display
VerInventario(s) ==
    /\ pc[s] \in {"idle", "ver_inventario"}
    /\ vista' = [vista EXCEPT ![s] =
                    [pagina |-> "inventario", error |-> FALSE,
                     refrescado |-> (pc[s] = "ver_inventario"),
                     tabla |-> get_data(inventario.filas)]]
    /\ pc' = [pc EXCEPT ![s] = "idle"]
    /\ UNCHANGED <<hojas, reloj, gestion, ids, venta_actual, compra_actual,
                   loc>>

\* a calendar month passes
Tick ==
    /\ reloj < MaxMes
    /\ reloj' = reloj + 1
    /\ UNCHANGED <<hojas, ids, sesion, gestion>>

----------------------------------------------------------------------------
(* Page "Registrar Venta" (src/prueba.py). *)

\* the epsilon 0.01 of the receivables, and the least amount of a payment
Eps == 10
MontoMinimo == 10

\* what the forms can be given
Clientes == {"Ana"}
Proveedores == {"Prov"}
Cantidades == {1}
Precios == {100000}
Montos == {40000, 60000}
MontosIniciales == {60000}
EstadosPago == {"Pagado", "Abono", "Debe"}

RECURSIVE SumaCampo(_, _)
\* df[campo].sum() over number cells or plain numbers
SumaCampo(df, campo) ==
    IF df = <<>> THEN 0 ELSE Head(df)[campo] + SumaCampo(Tail(df), campo)

\* form item_venta_form: a line is added to the cart
AgregarItemVenta(s, producto, talla, cantidad, precio) ==
    /\ pc[s] = "idle"
    /\ cliente_final(s) # ""
    /\ Len(venta_actual[s]) < MaxCarrito
    /\ talla \in PRODUCTOS[producto]
    /\ cantidad >= 1 /\ precio >= 0
    /\ venta_actual' = [venta_actual EXCEPT ![s] = Append(@,
          [Producto |-> producto, Talla |-> talla, Cantidad |-> cantidad,
           PrecioUnitario |-> precio, TotalVenta |-> cantidad * precio])]
    /\ Pagina(s, "venta")
    /\ UNCHANGED <<hojas, reloj, gestion, ids, pc, compra_actual, loc>>

\* form eliminar_item_venta_form: the selected lines leave the cart
EliminarItemsVenta(s, indices_a_eliminar) ==
    /\ pc[s] = "idle"
    /\ cliente_final(s) # ""
    /\ venta_actual[s] # <<>>
    /\ indices_a_eliminar \subseteq 1..Len(venta_actual[s])
    /\ venta_actual' = [venta_actual EXCEPT ![s] =
          Filtrar(@, (1..Len(@)) \ indices_a_eliminar)]
    /\ Pagina(s, "venta")
    /\ UNCHANGED <<hojas, reloj, gestion, ids, pc, compra_actual, loc>>

\* filas_venta: one row of Ventas per line of the cart
filas_venta(id_venta, fecha_venta, cliente, carrito, estado_pago) ==
    [i \in 1..Len(carrito) |->
        [ID |-> id_venta, Mes |-> fecha_venta,
         Producto |-> carrito[i].Producto, Talla |-> carrito[i].Talla,
         Cliente |-> cliente, Cantidad |-> Num(carrito[i].Cantidad),
         PrecioUnitario |-> Num(carrito[i].PrecioUnitario),
         TotalVenta |-> Num(carrito[i].TotalVenta),
         EstadoPago |-> estado_pago]]

\* variant: the payment row is written without its amount
fila_pago_sin_monto(id_pago, id_venta, fecha, monto) ==
    [ID |-> id_pago, IDVenta |-> id_venta, Mes |-> fecha,
     MontoPagado |-> Num(0)]

fila_pago(id_pago, id_venta, fecha, monto) ==
    [ID |-> id_pago, IDVenta |-> id_venta, Mes |-> fecha,
     MontoPagado |-> Num(monto)]

\* variant: a row whose contents, apart from its ID, are already in the sheet
\* is not appended again
append_row_unico(hoja, fila) ==
    IF \E i \in 1..Len(hoja) : [hoja[i] EXCEPT !.ID = fila.ID] = fila
    THEN hoja
    ELSE Append(hoja, fila)

\* worksheet.append_row(fila): the row goes after the last row of the sheet
append_row(hoja, fila) == Append(hoja, fila)

\* worksheet.append_rows(filas)
append_rows(hoja, filas) == hoja \o filas

\* sheets["ventas"].append_rows(filas_venta), the cart is emptied and
\* actualizar_inventario is entered
\* variant: the cart keeps its lines after the rows were appended
carrito_conservado(carrito) == carrito

\* st.session_state.venta_actual = [] and st.session_state.compra_actual = []
carrito_vacio(carrito) == <<>>

AppendFilasVenta(s, id_venta, fecha_venta, estado_pago) ==
    /\ ventas' = append_rows(ventas,
                             filas_venta(id_venta, fecha_venta,
                                         cliente_final(s),
                                         venta_actual[s], estado_pago))
    /\ venta_actual' = [venta_actual EXCEPT ![s] = carrito_vacio(@)]
    /\ pc' = [pc EXCEPT ![s] = "inv_compras"]
    /\ loc' = [loc EXCEPT ![s] = [LocInicial EXCEPT !.origen = "venta"]]

\* form finalizar_venta_form, up to its first remote call: the payment row of
\* a sale registered as Pagado or Abono, the sale rows of one registered Debe
FinalizarVenta(s, estado_pago, monto_abono_inicial) ==
    /\ pc[s] = "idle"
    /\ cliente_final(s) # ""
    /\ venta_actual[s] # <<>>
    /\ ids + 2 <= MaxIds
    /\ LET total_venta_actual == SumaCampo(venta_actual[s], "TotalVenta")
           id_venta == ids + 1
           fecha_venta == reloj
       IN /\ estado_pago = "Abono" =>
                /\ MontoMinimo <= monto_abono_inicial
                /\ monto_abono_inicial <= total_venta_actual
          /\ estado_pago # "Abono" => monto_abono_inicial = 0
          /\ IF estado_pago \in {"Pagado", "Abono"}
             THEN /\ pagos' = append_row(pagos,
                       fila_pago(ids + 2, id_venta, fecha_venta,
                                 IF estado_pago = "Pagado"
                                 THEN total_venta_actual
                                 ELSE monto_abono_inicial))
                  /\ ids' = ids + 2
                  /\ loc' = [loc EXCEPT ![s].id_venta = id_venta,
                                        ![s].fecha = fecha_venta,
                                        ![s].estado_pago = estado_pago]
                  /\ pc' = [pc EXCEPT ![s] = "venta_filas"]
                  /\ UNCHANGED <<ventas, venta_actual>>
             ELSE /\ AppendFilasVenta(s, id_venta, fecha_venta, estado_pago)
                  /\ ids' = ids + 1
                  /\ UNCHANGED pagos
    /\ Pagina(s, "venta")
    /\ UNCHANGED <<compras, inventario, reloj, gestion, compra_actual>>

\* the sale rows of a sale registered as Pagado or Abono
VentaFilas(s) ==
    /\ pc[s] = "venta_filas"
    /\ AppendFilasVenta(s, loc[s].id_venta, loc[s].fecha, loc[s].estado_pago)
    /\ UNCHANGED <<compras, pagos, inventario, reloj, gestion, ids,
                   compra_actual, vista>>

----------------------------------------------------------------------------
(* Page "Registrar Compra". *)

AgregarItemCompra(s, producto, talla, cantidad, costo) ==
    /\ pc[s] = "idle"
    /\ proveedor_final(s) # ""
    /\ Len(compra_actual[s]) < MaxCarrito
    /\ talla \in PRODUCTOS[producto]
    /\ cantidad >= 1 /\ costo >= 0
    /\ compra_actual' = [compra_actual EXCEPT ![s] = Append(@,
          [Producto |-> producto, Talla |-> talla, Cantidad |-> cantidad,
           CostoTotal |-> cantidad * costo])]
    /\ Pagina(s, "compra")
    /\ UNCHANGED <<hojas, reloj, gestion, ids, pc, venta_actual, loc>>

EliminarItemsCompra(s, indices_a_eliminar) ==
    /\ pc[s] = "idle"
    /\ proveedor_final(s) # ""
    /\ compra_actual[s] # <<>>
    /\ indices_a_eliminar \subseteq 1..Len(compra_actual[s])
    /\ compra_actual' = [compra_actual EXCEPT ![s] =
          Filtrar(@, (1..Len(@)) \ indices_a_eliminar)]
    /\ Pagina(s, "compra")
    /\ UNCHANGED <<hojas, reloj, gestion, ids, pc, venta_actual, loc>>

\* form finalizar_compra_form: the rows are appended, the cart is emptied and
\* actualizar_inventario is entered
FinalizarCompra(s, costo_envio) ==
    /\ pc[s] = "idle"
    /\ proveedor_final(s) # ""
    /\ compra_actual[s] # <<>>
    /\ ids + 1 <= MaxIds
    /\ costo_envio >= 0
    /\ compras' = append_rows(compras,
          [i \in 1..Len(compra_actual[s]) |->
              [ID |-> ids + 1, Mes |-> reloj,
               Producto |-> compra_actual[s][i].Producto,
               Talla |-> compra_actual[s][i].Talla,
               Proveedor |-> proveedor_final(s),
               Cantidad |-> Num(compra_actual[s][i].Cantidad),
               CostoTotal |-> Num(compra_actual[s][i].CostoTotal),
               CostoEnvio |-> Num(costo_envio)]])
    /\ ids' = ids + 1
    /\ compra_actual' = [compra_actual EXCEPT ![s] = carrito_vacio(@)]
    /\ pc' = [pc EXCEPT ![s] = "inv_compras"]
    /\ loc' = [loc EXCEPT ![s] = [LocInicial EXCEPT !.origen = "compra"]]
    /\ Pagina(s, "compra")
    /\ UNCHANGED <<ventas, pagos, inventario, reloj, gestion, venta_actual>>

----------------------------------------------------------------------------
(* Page "Cuentas por Cobrar". *)

RECURSIVE OrdenarNum(_)
OrdenarNum(S) ==
    IF S = {} THEN <<>>
    ELSE LET m == CHOOSE a \in S : \A b \in S : a <= b
         IN <<m>> \o OrdenarNum(S \ {m})

\* the indices of the rows of df that satisfy Cond
Indices(df, Cond(_)) == {i \in 1..Len(df) : Cond(df[i])}

EsPendiente(fila) == fila.EstadoPago \in {"Debe", "Abono"}

\* ventas_df[ventas_df['Estado Pago'].isin(['Debe', 'Abono'])]
ventas_pendientes(ventas_df) ==
    Filtrar(ventas_df, Indices(ventas_df, EsPendiente))

\* pagos_df.groupby('ID Venta')['Monto Pagado'].sum() after to_numeric, looked
\* up by the left merge with fillna(0): 0 for a sale without payment
total_pagado_por_venta(pagos_df, id_venta) ==
    SumaSeq([j \in 1..Len(pagos_df) |->
                IF pagos_df[j].IDVenta = id_venta
                THEN to_numeric(pagos_df[j].MontoPagado) ELSE 0])

\* resumen_deudas: one row per sale with pending rows, in the order of the id
resumen_deudas(ventas_df, pagos_df) ==
    LET pendientes == ventas_pendientes(ventas_df)
        claves == OrdenarNum({pendientes[i].ID : i \in 1..Len(pendientes)})
        primera(k) == CHOOSE i \in 1..Len(pendientes) :
                          /\ pendientes[i].ID = k
                          /\ \A j \in 1..(i - 1) : pendientes[j].ID # k
        total(k) == SumaSeq([j \in 1..Len(pendientes) |->
                        IF pendientes[j].ID = k
                        THEN to_numeric(pendientes[j].TotalVenta) ELSE 0])
    IN [i \in 1..Len(claves) |->
           [IDVenta |-> claves[i],
            Cliente |-> pendientes[primera(claves[i])].Cliente,
            Total_Venta |-> total(claves[i]),
            MontoPagado |-> total_pagado_por_venta(pagos_df, claves[i]),
            SaldoPendiente |->
                total(claves[i]) - total_pagado_por_venta(pagos_df, claves[i])]]

\* variant: the balances from 0.01 on are shown
mostrar_desde_epsilon(fila) == fila.SaldoPendiente >= Eps

\* resumen_deudas['Saldo Pendiente'] > 0.01
mostrar_deuda(fila) == fila.SaldoPendiente > Eps

NoEnviado == [enviado |-> FALSE, id_venta_pago |-> 0, monto_pago |-> 0]

\* ventas_df = get_data("ventas")
CxcLeerVentas(s) ==
    /\ pc[s] = "idle"
    /\ loc' = [loc EXCEPT ![s] = [LocInicial EXCEPT !.ventas_df =
                                                       get_data(ventas)]]
    /\ pc' = [pc EXCEPT ![s] = "cxc_pagos"]
    /\ UNCHANGED <<hojas, reloj, gestion, ids, venta_actual, compra_actual,
                   vista>>

\* pagos_df = get_data("pagos"), the summary of debts and its display; with
\* the form registrar_abono_form submitted the run goes on to the payment and
\* ends in st.rerun(), which replaces what it displayed
CxcLeerPagos(s, envio) ==
    /\ pc[s] = "cxc_pagos"
    /\ LET resumen == resumen_deudas(loc[s].ventas_df, get_data(pagos))
       IN /\ IF envio.enviado
             THEN /\ ids + 1 <= MaxIds
                  /\ envio.monto_pago >= MontoMinimo
                  /\ \E i \in 1..Len(resumen) :
                        /\ resumen[i].IDVenta = envio.id_venta_pago
                        /\ loc' = [loc EXCEPT ![s] =
                              [LocInicial EXCEPT
                                  !.id_venta = envio.id_venta_pago,
                                  !.monto = envio.monto_pago,
                                  !.saldo = resumen[i].SaldoPendiente]]
                  /\ pc' = [pc EXCEPT ![s] = "abono_pago"]
                  /\ Pagina(s, "cxc")
             ELSE /\ loc' = [loc EXCEPT ![s] = LocInicial]
                  /\ pc' = [pc EXCEPT ![s] = "idle"]
                  /\ vista' = [vista EXCEPT ![s] =
                        [pagina |-> "cxc", error |-> FALSE,
                         refrescado |-> FALSE,
                         tabla |-> Filtrar(resumen,
                                           Indices(resumen, mostrar_deuda))]]
    /\ UNCHANGED <<hojas, reloj, gestion, ids, venta_actual, compra_actual>>

\* nuevo_saldo <= 0.01
saldado(nuevo_saldo) == nuevo_saldo <= Eps

\* sheets["pagos"].append_row([id_pago, id_venta_pago, fecha_pago, monto_pago])
AbonoPago(s) ==
    /\ pc[s] = "abono_pago"
    /\ pagos' = append_row(pagos, fila_pago(ids + 1, loc[s].id_venta,
                                            reloj, loc[s].monto))
    /\ ids' = ids + 1
    /\ LET nuevo_saldo == loc[s].saldo - loc[s].monto
       IN IF saldado(nuevo_saldo)
          THEN /\ pc' = [pc EXCEPT ![s] = "abono_findall"]
               /\ UNCHANGED loc
          ELSE /\ pc' = [pc EXCEPT ![s] = "idle"]
               /\ loc' = [loc EXCEPT ![s] = LocInicial]
    /\ UNCHANGED <<ventas, compras, inventario, reloj, gestion, venta_actual,
                   compra_actual, vista>>

\* cell_list = sheets["ventas"].findall(id_venta_pago)
AbonoFindall(s) ==
    /\ pc[s] = "abono_findall"
    /\ LET cell_list == OrdenarNum({i \in 1..Len(ventas) :
                                       ventas[i].ID = loc[s].id_venta})
       IN IF cell_list = <<>>
          THEN /\ pc' = [pc EXCEPT ![s] = "idle"]
               /\ loc' = [loc EXCEPT ![s] = LocInicial]
          ELSE /\ pc' = [pc EXCEPT ![s] = "abono_update"]
               /\ loc' = [loc EXCEPT ![s].cell_list = cell_list]
    /\ UNCHANGED <<hojas, reloj, gestion, ids, venta_actual, compra_actual,
                   vista>>

\* variant: the settlement writes the status of a sale that still owes
estado_saldado_debe == "Debe"

\* the status update_cell writes
estado_saldado == "Pagado"

\* variant: the update writes the status and empties the total of the row
update_cell_fila(hoja, fila, valor) ==
    [hoja EXCEPT ![fila].EstadoPago = valor, ![fila].TotalVenta = Num(0)]

\* worksheet.update_cell(cell.row, estado_col_index, valor): the cell of the
\* column Estado Pago of one row
update_cell(hoja, fila, valor) == [hoja EXCEPT ![fila].EstadoPago = valor]

\* sheets["ventas"].update_cell(cell.row, estado_col_index, "Pagado"), one
\* cell of cell_list per step
AbonoUpdateCell(s) ==
    /\ pc[s] = "abono_update"
    /\ ventas' = update_cell(ventas, Head(loc[s].cell_list), estado_saldado)
    /\ IF Tail(loc[s].cell_list) = <<>>
       THEN /\ pc' = [pc EXCEPT ![s] = "idle"]
            /\ loc' = [loc EXCEPT ![s] = LocInicial]
       ELSE /\ pc' = pc
            /\ loc' = [loc EXCEPT ![s].cell_list = Tail(@)]
    /\ UNCHANGED <<compras, pagos, inventario, reloj, gestion, ids,
                   venta_actual, compra_actual, vista>>

----------------------------------------------------------------------------
(* Page "Finanzas". *)

\* the option "Todos" of the month selector; the months are 1, 2, ...
Todos == 0

\* the months of the rows of Ventas and Compras, the options of the selector
meses_disponibles(ventas_df_full, compras_df_full) ==
    {ventas_df_full[i].Mes : i \in 1..Len(ventas_df_full)}
    \cup {compras_df_full[i].Mes : i \in 1..Len(compras_df_full)}

\* df_full[df_full['Mes'] == mes_seleccionado], or df_full with "Todos"
filtrar_mes(df_full, mes_seleccionado) ==
    IF mes_seleccionado = Todos THEN df_full
    ELSE Filtrar(df_full,
                 {i \in 1..Len(df_full) : df_full[i].Mes = mes_seleccionado})

\* with a month selected the filtered frame of an empty frame is
\* pd.DataFrame(), which has no column: reading a column of it raises KeyError
sin_columnas(df_full, mes_seleccionado) ==
    mes_seleccionado # Todos /\ df_full = <<>>

\* pagos_filtrados['Monto Pagado'].sum()
ingresos_de_pagos(pagos_filtrados) ==
    SumaSeq([j \in 1..Len(pagos_filtrados) |->
                to_numeric(pagos_filtrados[j].MontoPagado)])

\* the total of the rows Pagado of the period whose sale has no row in Pagos
ingresos_legacy(ventas_filtradas, pagos_df_full) ==
    LET id_ventas_con_pago ==
            {pagos_df_full[j].IDVenta : j \in 1..Len(pagos_df_full)}
    IN SumaSeq([i \in 1..Len(ventas_filtradas) |->
           IF /\ ventas_filtradas[i].EstadoPago = "Pagado"
              /\ ventas_filtradas[i].ID \notin id_ventas_con_pago
           THEN to_numeric(ventas_filtradas[i].TotalVenta) ELSE 0])

\* compras_filtradas['Costo Total'].sum() plus the 'Costo Envio' of the
\* first row of every 'ID Compra' (drop_duplicates keeps the first)
total_gastos(compras_filtradas) ==
    SumaSeq([i \in 1..Len(compras_filtradas) |->
                to_numeric(compras_filtradas[i].CostoTotal)])
    + SumaSeq([i \in 1..Len(compras_filtradas) |->
          IF \A j \in 1..(i - 1) :
                 compras_filtradas[j].ID # compras_filtradas[i].ID
          THEN to_numeric(compras_filtradas[i].CostoEnvio) ELSE 0])

\* total_deuda_bruta - total_abonado_a_deudas over the whole history
total_por_cobrar(ventas_df_full, pagos_df_full) ==
    LET ventas_pendientes_full == ventas_pendientes(ventas_df_full)
        ids_pendientes == {ventas_pendientes_full[i].ID :
                              i \in 1..Len(ventas_pendientes_full)}
    IN SumaSeq([i \in 1..Len(ventas_pendientes_full) |->
                   to_numeric(ventas_pendientes_full[i].TotalVenta)])
       - SumaSeq([j \in 1..Len(pagos_df_full) |->
                     IF pagos_df_full[j].IDVenta \in ids_pendientes
                     THEN to_numeric(pagos_df_full[j].MontoPagado) ELSE 0])

\* the four metrics of the report
metricas(ventas_df_full, compras_df_full, pagos_df_full, mes_seleccionado) ==
    LET total_ingresos_reales ==
            ingresos_de_pagos(filtrar_mes(pagos_df_full, mes_seleccionado))
            + ingresos_legacy(filtrar_mes(ventas_df_full, mes_seleccionado),
                              pagos_df_full)
        gastos == total_gastos(filtrar_mes(compras_df_full, mes_seleccionado))
    IN [mes_seleccionado |-> mes_seleccionado,
        total_ingresos_reales |-> total_ingresos_reales,
        total_gastos |-> gastos,
        ganancia_real |-> total_ingresos_reales - gastos,
        total_por_cobrar |-> total_por_cobrar(ventas_df_full, pagos_df_full)]

\* ventas_df_full = get_data("ventas")
FinLeerVentas(s) ==
    /\ pc[s] = "idle"
    /\ loc' = [loc EXCEPT ![s] = [LocInicial EXCEPT !.ventas_df =
                                                       get_data(ventas)]]
    /\ pc' = [pc EXCEPT ![s] = "fin_compras"]
    /\ UNCHANGED <<hojas, reloj, gestion, ids, venta_actual, compra_actual,
                   vista>>

\* compras_df_full = get_data("compras")
FinLeerCompras(s) ==
    /\ pc[s] = "fin_compras"
    /\ loc' = [loc EXCEPT ![s].compras_df = get_data(compras)]
    /\ pc' = [pc EXCEPT ![s] = "fin_pagos"]
    /\ UNCHANGED <<hojas, reloj, gestion, ids, venta_actual, compra_actual,
                   vista>>

\* pagos_df_full = get_data("pagos") and the report for the month selected;
\* what the page rendered before an exception (the selector) stays displayed
FinLeerPagos(s, mes_seleccionado) ==
    /\ pc[s] = "fin_pagos"
    /\ LET ventas_df_full == loc[s].ventas_df
           compras_df_full == loc[s].compras_df
           pagos_df_full == get_data(pagos)
       IN IF ventas_df_full = <<>> /\ compras_df_full = <<>>
          THEN /\ mes_seleccionado = Todos
               /\ vista' = [vista EXCEPT ![s] =
                     [VistaInicial EXCEPT !.pagina = "finanzas"]]
          ELSE /\ mes_seleccionado \in
                     {Todos} \cup meses_disponibles(ventas_df_full,
                                                    compras_df_full)
               /\ IF \/ sin_columnas(pagos_df_full, mes_seleccionado)
                     \/ sin_columnas(ventas_df_full, mes_seleccionado)
                     \/ sin_columnas(compras_df_full, mes_seleccionado)
                  THEN vista' = [vista EXCEPT ![s] =
                          [pagina |-> "finanzas", error |-> TRUE,
                           refrescado |-> FALSE,
                           tabla |-> <<[mes_seleccionado |->
                                           mes_seleccionado]>>]]
                  ELSE vista' = [vista EXCEPT ![s] =
                          [pagina |-> "finanzas", error |-> FALSE,
                           refrescado |-> FALSE,
                           tabla |-> <<metricas(ventas_df_full,
                                                compras_df_full,
                                                pagos_df_full,
                                                mes_seleccionado)>>]]
    /\ pc' = [pc EXCEPT ![s] = "idle"]
    /\ loc' = [loc EXCEPT ![s] = LocInicial]
    /\ UNCHANGED <<hojas, reloj, gestion, ids, venta_actual, compra_actual>>

----------------------------------------------------------------------------
(* Reconciliation of the inventory over arbitrary logs: the sheets start     *)
(* with any rows of the bounded sets below, and one session recomputes.      *)

FilasCompraInv ==
    {[ID |-> 1, Mes |-> 1, Producto |-> Bata, Talla |-> TallaS,
      Proveedor |-> "Prov", Cantidad |-> c, CostoTotal |-> Num(1000),
      CostoEnvio |-> Num(0)] : c \in {Num(1), Num(2), Texto}}
    \cup
    {[ID |-> 1, Mes |-> 1, Producto |-> p, Talla |-> TallaS,
      Proveedor |-> "Prov", Cantidad |-> Num(1), CostoTotal |-> Num(1000),
      CostoEnvio |-> Num(0)] : p \in {BataKids}}

FilasVentaInv ==
    {[ID |-> 1, Mes |-> 1, Producto |-> Bata, Talla |-> TallaS,
      Cliente |-> "Ana", Cantidad |-> c, PrecioUnitario |-> Num(1000),
      TotalVenta |-> Num(1000), EstadoPago |-> "Debe"] :
        c \in {Num(3)}}
    \cup
    {[ID |-> 1, Mes |-> 1, Producto |-> Bata, Talla |-> t,
      Cliente |-> "Ana", Cantidad |-> Num(1), PrecioUnitario |-> Num(1000),
      TotalVenta |-> Num(1000), EstadoPago |-> "Debe"] :
        t \in {TallaM, TallaSM}}

FilaInventario(sku, p, t, uc, uv) ==
    [SKU |-> sku, Producto |-> p, Talla |-> t, UnidadesCompradas |-> uc,
     UnidadesVendidas |-> uv, StockActual |-> uc - uv,
     FechaActualizacion |-> 0]

\* what the sheet Inventario may hold before a recalculation
InventariosPrevios ==
    {[encabezado |-> <<>>, filas |-> <<>>],
     [encabezado |-> ColumnasInventario, filas |-> <<>>],
     [encabezado |-> ColumnasInventario,
      filas |-> <<FilaInventario(SKU(Bata, TallaM), Bata, TallaM, 7, 4),
                  FilaInventario(SKU(Bata, TallaS), Bata, TallaS, 5, 0),
                  FilaInventario(SKU(BataKids, TallaS), Bata, TallaS, 1, 0)>>]}

SeqHasta(S, n) == UNION {[1..k -> S] : k \in 0..n}

\* the rows of Pagos carry each its own identifier
PagosHasta(S, n) ==
    {p \in SeqHasta(S, n) :
        \A i, j \in 1..Len(p) : p[i].ID = p[j].ID => i = j}

InitInv ==
    /\ ventas \in SeqHasta(FilasVentaInv, MaxFilas)
    /\ compras \in SeqHasta(FilasCompraInv, MaxFilas)
    /\ pagos = <<>>
    /\ inventario \in InventariosPrevios
    /\ reloj = 1
    /\ InitGestion
    /\ ids = 0
    /\ pc = [s \in Sesiones |-> "idle"]
    /\ venta_actual = [s \in Sesiones |-> <<>>]
    /\ compra_actual = [s \in Sesiones |-> <<>>]
    /\ loc = [s \in Sesiones |-> LocInicial]
    /\ vista = [s \in Sesiones |-> VistaInicial]

NextInv ==
    \/ Refrescar("s1")
    \/ actualizar_inventario("s1")
    \/ VerInventario("s1")
    \/ Tick

SpecInv == InitInv /\ [][NextInv]_vars

----------------------------------------------------------------------------
(* The application: two sessions on sheets that start with their header     *)
(* rows alone, registering sales and payments within one month.              *)

Init ==
    /\ ventas = <<>>
    /\ compras = <<>>
    /\ pagos = <<>>
    /\ inventario = [encabezado |-> ColumnasInventario, filas |-> <<>>]
    /\ reloj = 1
    /\ InitGestion
    /\ ids = 0
    /\ pc = [s \in Sesiones |-> "idle"]
    /\ venta_actual = [s \in Sesiones |-> <<>>]
    /\ compra_actual = [s \in Sesiones |-> <<>>]
    /\ loc = [s \in Sesiones |-> LocInicial]
    /\ vista = [s \in Sesiones |-> VistaInicial]

Paso(s) ==
    \/ \E p \in {Bata}, t \in {TallaS}, c \in Cantidades, v \in Precios :
          AgregarItemVenta(s, p, t, c, v)
    \/ \E idx \in SUBSET (1..MaxCarrito) : EliminarItemsVenta(s, idx)
    \/ \E e \in EstadosPago, m \in MontosIniciales \cup {0} :
          FinalizarVenta(s, e, m)
    \/ VentaFilas(s)
    \/ actualizar_inventario(s)
    \/ CxcLeerVentas(s)
    \/ \E v \in 1..MaxIds, m \in Montos :
          CxcLeerPagos(s, [enviado |-> TRUE, id_venta_pago |-> v,
                           monto_pago |-> m])
    \/ AbonoPago(s)
    \/ AbonoFindall(s)
    \/ AbonoUpdateCell(s)

Next == \E s \in Sesiones : Paso(s)

Spec == Init /\ [][Next]_vars

----------------------------------------------------------------------------
(* A recalculation and a reader: the logs hold at least one row, the sheet   *)
(* Inventario holds the rows of an earlier recalculation; session s1         *)
(* refreshes the inventory, its write may fail, and session s2 reads the     *)
(* inventory page at any time.                                               *)

InitLector ==
    /\ ventas \in SeqHasta(FilasVentaInv, MaxFilas)
    /\ compras \in SeqHasta(FilasCompraInv, MaxFilas)
    /\ ventas # <<>> \/ compras # <<>>
    /\ pagos = <<>>
    /\ inventario \in {hoja \in InventariosPrevios : hoja.filas # <<>>}
    /\ reloj = 1
    /\ InitGestion
    /\ ids = 0
    /\ pc = [s \in Sesiones |-> "idle"]
    /\ venta_actual = [s \in Sesiones |-> <<>>]
    /\ compra_actual = [s \in Sesiones |-> <<>>]
    /\ loc = [s \in Sesiones |-> LocInicial]
    /\ vista = [s \in Sesiones |-> VistaInicial]

NextLector ==
    \/ Refrescar("s1")
    \/ actualizar_inventario("s1")
    \/ InvUpdateFalla("s1")
    \/ VerInventario("s1")
    \/ VerInventario("s2")

SpecLector == InitLector /\ [][NextLector]_vars

----------------------------------------------------------------------------
(* Overlapping recalculations: two sessions register sales of the two sizes  *)
(* of a product on sheets that start with their header rows alone, each      *)
(* sale followed by its recalculation, whose write may fail; the inventory   *)
(* page is read at any time.                                                 *)

PasoRec(s) ==
    \/ \E t \in {TallaS, TallaM} : AgregarItemVenta(s, Bata, t, 1, 100000)
    \/ FinalizarVenta(s, "Debe", 0)
    \/ actualizar_inventario(s)
    \/ InvUpdateFalla(s)
    \/ VerInventario(s)

NextRec == \E s \in Sesiones : PasoRec(s)

SpecRec == Init /\ [][NextRec]_vars

----------------------------------------------------------------------------
(* Claims on actualizar_inventario, checked under SpecInv.  The state        *)
(* pc[s] = "ver_inventario" is the one in which the call has just returned.  *)

SKUsDe(log) == {SKU(log[i].Producto, log[i].Talla) : i \in 1..Len(log)}

CantidadDe(fila) == IF fila.Cantidad[1] = "n" THEN fila.Cantidad[2] ELSE 0

RECURSIVE SumaCantidad(_, _)
\* the sum of the quantities of the rows of a log that are of one SKU
SumaCantidad(log, sku) ==
    IF log = <<>> THEN 0
    ELSE (IF SKU(Head(log).Producto, Head(log).Talla) = sku
          THEN CantidadDe(Head(log)) ELSE 0)
         + SumaCantidad(Tail(log), sku)

Retornado(s) == pc[s] = "ver_inventario"

\* the call has ended, returning or raising
Terminado(s) == Retornado(s) \/ vista[s].error

\* C1: after actualizar_inventario has run, whatever the logs, the sheet
\* Inventario has exactly one row for every SKU of either log, with the
\* units purchased and the units sold summed over the log (0 for a SKU the
\* log does not have) and the stock their difference.
C1_UnaFilaPorSKU ==
    \A s \in Sesiones : Terminado(s) =>
        LET filas == inventario.filas
            skus == SKUsDe(ventas) \cup SKUsDe(compras)
        IN /\ Len(filas) = Cardinality(skus)
           /\ {filas[i].SKU : i \in 1..Len(filas)} = skus
           /\ \A i \in 1..Len(filas) :
                 /\ filas[i].UnidadesCompradas
                        = SumaCantidad(compras, filas[i].SKU)
                 /\ filas[i].UnidadesVendidas
                        = SumaCantidad(ventas, filas[i].SKU)
                 /\ filas[i].StockActual
                        = SumaCantidad(compras, filas[i].SKU)
                          - SumaCantidad(ventas, filas[i].SKU)

\* C3: with no row in Ventas and none in Compras, actualizar_inventario does
\* not raise, returns an empty frame and leaves the sheet Inventario with
\* the header row alone.
C3_LogsVacios ==
    \A s \in Sesiones : (ventas = <<>> /\ compras = <<>>) =>
        /\ ~vista[s].error
        /\ pc[s] \in {"inv_clear", "inv_update"} =>
               loc[s].inventario_df = <<>>
        /\ Retornado(s) =>
               inventario = [encabezado |-> ColumnasInventario,
                             filas |-> <<>>]

\* a call on empty logs has returned, the sheet held rows before it
C3_Testigo ==
    /\ ventas = <<>> /\ compras = <<>>
    /\ Retornado("s1")
    /\ vista["s1"].tabla # <<>>

SinFecha(filas) ==
    [i \in 1..Len(filas) |-> [filas[i] EXCEPT !.FechaActualizacion = 0]]

\* C4: a second actualizar_inventario over unchanged logs writes the rows the
\* first one wrote (the page shows those, read after the first call); only
\* the timestamp may differ.
C4_Idempotente ==
    \A s \in Sesiones :
        (Retornado(s) /\ vista[s].refrescado) =>
            /\ inventario.encabezado = ColumnasInventario
            /\ SinFecha(inventario.filas) = SinFecha(vista[s].tabla)

\* the second call has returned in a later month than the first
C4_Testigo ==
    /\ Retornado("s1") /\ vista["s1"].refrescado
    /\ Len(inventario.filas) = 2
    /\ vista["s1"].tabla[1].FechaActualizacion = 1
    /\ inventario.filas[1].FechaActualizacion = 2

\* C5: actualizar_inventario replaces the sheet: whatever it held, after the
\* call it holds the header and rows computed by this call from the logs;
\* no row of a SKU that the logs do not have and no earlier row is left.
C5_ReemplazoTotal ==
    \A s \in Sesiones : Retornado(s) =>
        /\ inventario.encabezado = ColumnasInventario
        /\ \A i \in 1..Len(inventario.filas) :
              /\ inventario.filas[i].SKU \in SKUsDe(ventas) \cup SKUsDe(compras)
              /\ inventario.filas[i].FechaActualizacion >= 1
              /\ \A j \in 1..Len(inventario.filas) :
                    inventario.filas[j].SKU = inventario.filas[i].SKU => j = i

\* the page showed three earlier rows and the call has left one
C5_Testigo ==
    /\ Retornado("s1")
    /\ ~vista["s1"].refrescado
    /\ Len(vista["s1"].tabla) = 3
    /\ Len(inventario.filas) = 1

----------------------------------------------------------------------------
(* The three aggregations over logs in which cells of the numeric columns
   are texts. *)

FilasVentaNum ==
    {[ID |-> 1, Mes |-> 1, Producto |-> Bata, Talla |-> TallaS,
      Cliente |-> "Ana", Cantidad |-> c, PrecioUnitario |-> Num(100000),
      TotalVenta |-> Num(100000), EstadoPago |-> "Debe"] :
        c \in {Num(1), Texto}}
    \cup
    {[ID |-> 2, Mes |-> 1, Producto |-> Bata, Talla |-> TallaM,
      Cliente |-> "Ana", Cantidad |-> Num(1), PrecioUnitario |-> Texto,
      TotalVenta |-> Texto, EstadoPago |-> e] : e \in {"Debe", "Pagado"}}

FilasCompraNum ==
    {[ID |-> 3, Mes |-> 1, Producto |-> Bata, Talla |-> TallaS,
      Proveedor |-> "Prov", Cantidad |-> Num(2), CostoTotal |-> Num(50000),
      CostoEnvio |-> Num(5000)],
     [ID |-> 4, Mes |-> 1, Producto |-> Bata, Talla |-> TallaS,
      Proveedor |-> "Prov", Cantidad |-> Texto, CostoTotal |-> Texto,
      CostoEnvio |-> Texto]}

FilasPagoNum ==
    {fila_pago(5, 1, 1, 40000),
     [ID |-> 6, IDVenta |-> 1, Mes |-> 1, MontoPagado |-> Texto]}

InitNum ==
    /\ ventas \in SeqHasta(FilasVentaNum, MaxFilas)
    /\ compras \in SeqHasta(FilasCompraNum, MaxFilas)
    /\ pagos \in PagosHasta(FilasPagoNum, MaxFilas)
    /\ inventario = [encabezado |-> ColumnasInventario, filas |-> <<>>]
    /\ reloj = 1
    /\ InitGestion
    /\ ids = 0
    /\ pc = [s \in Sesiones |-> "idle"]
    /\ venta_actual = [s \in Sesiones |-> <<>>]
    /\ compra_actual = [s \in Sesiones |-> <<>>]
    /\ loc = [s \in Sesiones |-> LocInicial]
    /\ vista = [s \in Sesiones |-> VistaInicial]

NextNum ==
    \/ Refrescar("s1")
    \/ actualizar_inventario("s1")
    \/ VerInventario("s1")
    \/ CxcLeerVentas("s1")
    \/ CxcLeerPagos("s1", NoEnviado)
    \/ FinLeerVentas("s1")
    \/ FinLeerCompras("s1")
    \/ \E m \in 0..MaxMes : FinLeerPagos("s1", m)

SpecNum == InitNum /\ [][NextNum]_vars

----------------------------------------------------------------------------
(* Page "Gestión" (src/prueba.py, src/app.py) and the widgets of the client
   and of the supplier.  cache_data is the entry of load_master_data as a
   page handler finds it: every script run calls load_master_data() before
   its page, so the entry is missing only between a clear and the load of
   the rerun that follows it.  The handlers of the other pages that end in
   st.cache_data.clear() leave the master sheets alone, and the load after
   them caches the same rows again. *)

\* what the text inputs of the forms are given: a client with and without
\* its name, a product and a supplier with a required field left empty
Nombres == {"", "Luz"}
NombresProveedor == {""}
EnviosProducto == {<<"", "">>, <<"Gorro", "">>, <<"", "U">>}

\* what the widgets of the client and of the supplier can be given: one of
\* the list, none, one of the list with blanks typed as a new one
EleccionesCliente == {<<"Ana", "">>, <<"", "">>, <<"Ana", " ">>}
EleccionesProveedor == {<<"Prov", "">>, <<"", "">>, <<"Prov", " ">>}

\* variant: every text passes the test of a required field
obligatorio_nunca(texto) == TRUE

\* `if nombre:`, the truth value of a str
obligatorio(texto) == texto # ""

\* what the page shows of a submission: st.warning for a required field
\* left empty, st.success after an append, until the rerun replaces the page
RespuestaGestion(s, formulario, nombre, tallas, aviso) ==
    vista' = [vista EXCEPT ![s] =
                 [pagina |-> "gestion", error |-> FALSE, refrescado |-> FALSE,
                  tabla |-> <<[formulario |-> formulario, nombre |-> nombre,
                               tallas |-> tallas, aviso |-> aviso]>>]]

\* the append of a row to a master sheet; the run goes on to
\* st.cache_data.clear() and st.rerun()
AppendMaestro(s, hoja, fila) ==
    /\ Len(maestros[hoja]) < MaxFilas
    /\ maestros' = [maestros EXCEPT ![hoja] = append_row(@, fila)]
    /\ cache_data' = cache_data
    /\ pc' = [pc EXCEPT ![s] = "cache_clear"]

\* st.cache_data.clear() after the append has returned: the cache belongs to
\* the process, so the other sessions' runs can load between the two
cache_data_clear(s) ==
    /\ pc[s] = "cache_clear"
    /\ cache_data' = Nada
    /\ pc' = [pc EXCEPT ![s] = "rerun"]
    /\ UNCHANGED <<hojas, reloj, ids, venta_actual, compra_actual, loc,
                   vista, maestros, entrada>>

nuevo_producto_form(s, nombre, tallas) ==
    /\ pc[s] = "idle"
    /\ IF obligatorio(nombre) /\ obligatorio(tallas)
       THEN /\ AppendMaestro(s, "productos",
                             [NombreProducto |-> nombre,
                              TallasDisponibles |-> tallas])
            /\ RespuestaGestion(s, "producto", nombre, tallas, FALSE)
       ELSE /\ RespuestaGestion(s, "producto", nombre, tallas, TRUE)
            /\ UNCHANGED <<maestros, cache_data, pc>>
    /\ UNCHANGED <<hojas, reloj, ids, venta_actual, compra_actual, loc,
                   entrada>>

nuevo_cliente_form(s, nombre) ==
    /\ pc[s] = "idle"
    /\ IF obligatorio(nombre)
       THEN /\ AppendMaestro(s, "clientes", nombre)
            /\ RespuestaGestion(s, "cliente", nombre, "", FALSE)
       ELSE /\ RespuestaGestion(s, "cliente", nombre, "", TRUE)
            /\ UNCHANGED <<maestros, cache_data, pc>>
    /\ UNCHANGED <<hojas, reloj, ids, venta_actual, compra_actual, loc,
                   entrada>>

nuevo_proveedor_form(s, nombre) ==
    /\ pc[s] = "idle"
    /\ IF obligatorio(nombre)
       THEN /\ AppendMaestro(s, "proveedores", nombre)
            /\ RespuestaGestion(s, "proveedor", nombre, "", FALSE)
       ELSE /\ RespuestaGestion(s, "proveedor", nombre, "", TRUE)
            /\ UNCHANGED <<maestros, cache_data, pc>>
    /\ UNCHANGED <<hojas, reloj, ids, venta_actual, compra_actual, loc,
                   entrada>>

\* load_master_data() of the rerun: the cache holds no entry, the three
\* sheets are read and cached
load_master_data(s) ==
    /\ pc[s] = "rerun"
    /\ cache_data' = IF cache_data = Nada THEN maestros ELSE cache_data
    /\ pc' = [pc EXCEPT ![s] = "idle"]
    /\ Pagina(s, "gestion")
    /\ UNCHANGED <<hojas, reloj, ids, venta_actual, compra_actual, loc,
                   maestros, entrada>>

Elementos(lista) == {lista[i] : i \in 1..Len(lista)}

\* page Registrar Venta rendered with the client widgets filled: a client of
\* the cached list or none is selected, nothing or blanks are typed as a new
\* client; without cliente_final the page shows its warning only
ElegirCliente(s, cliente_existente, cliente_nuevo) ==
    /\ pc[s] = "idle"
    /\ cliente_existente \in {""} \cup Elementos(cache_data.clientes)
    /\ cliente_nuevo \in {""} \cup Blancos
    /\ entrada' = [entrada EXCEPT ![s].cliente_existente = cliente_existente,
                                  ![s].cliente_nuevo = cliente_nuevo]
    /\ Pagina(s, "venta")
    /\ UNCHANGED <<hojas, reloj, ids, pc, venta_actual, compra_actual, loc,
                   maestros, cache_data>>

\* page Registrar Compra rendered with the supplier widgets filled
ElegirProveedor(s, proveedor_existente, proveedor_nuevo) ==
    /\ pc[s] = "idle"
    /\ proveedor_existente \in {""} \cup Elementos(cache_data.proveedores)
    /\ proveedor_nuevo \in {""} \cup Blancos
    /\ entrada' = [entrada EXCEPT
                      ![s].proveedor_existente = proveedor_existente,
                      ![s].proveedor_nuevo = proveedor_nuevo]
    /\ Pagina(s, "compra")
    /\ UNCHANGED <<hojas, reloj, ids, pc, venta_actual, compra_actual, loc,
                   maestros, cache_data>>

PasoGestion(s) ==
    \/ \E e \in EnviosProducto : nuevo_producto_form(s, e[1], e[2])
    \/ \E n \in Nombres : nuevo_cliente_form(s, n)
    \/ \E n \in NombresProveedor : nuevo_proveedor_form(s, n)
    \/ cache_data_clear(s)
    \/ load_master_data(s)
    \/ \E e \in EleccionesCliente : ElegirCliente(s, e[1], e[2])
    \/ \E e \in EleccionesProveedor : ElegirProveedor(s, e[1], e[2])
    \/ AgregarItemVenta(s, Bata, TallaS, 1, 100000)
    \/ FinalizarVenta(s, "Debe", 0)
    \/ AgregarItemCompra(s, Bata, TallaS, 1, 100000)
    \/ FinalizarCompra(s, 0)
    \/ actualizar_inventario(s)

NextGestion == PasoGestion("s1")

SpecGestion == Init /\ [][NextGestion]_vars

\* A run of the Gestion page without a submission: load_master_data() is
\* served from the cache when it holds an entry, reads the three sheets and
\* fills it otherwise, and the page shows the three lists it was given
VerMaestros(s) ==
    /\ pc[s] = "idle"
    /\ cache_data' = IF cache_data = Nada THEN maestros ELSE cache_data
    /\ vista' = [vista EXCEPT ![s] = [pagina |-> "listas",
                                      tabla |-> <<cache_data'>>,
                                      error |-> FALSE]]
    /\ UNCHANGED <<hojas, reloj, ids, pc, venta_actual, compra_actual, loc,
                   maestros, entrada>>

\* Two sessions of one process on the Gestion page
NombresNuevos == {"", "Luz"}
PasoCache(s) ==
    \/ \E e \in EnviosProducto : nuevo_producto_form(s, e[1], e[2])
    \/ \E n \in NombresNuevos : nuevo_cliente_form(s, n)
    \/ \E n \in NombresNuevos : nuevo_proveedor_form(s, n)
    \/ cache_data_clear(s)
    \/ load_master_data(s)
    \/ VerMaestros(s)

NextCache == \E s \in Sesiones : PasoCache(s)

SpecCache == Init /\ [][NextCache]_vars

\* The sheets after the finalization of one sale of two cart lines,
\* registered as Debe or as Abono with an initial payment, and the page
\* Cuentas por Cobrar used by two sessions
CarritoDosLineas ==
    <<[Producto |-> Bata, Talla |-> TallaS, Cantidad |-> 1,
       PrecioUnitario |-> 50000, TotalVenta |-> 50000],
      [Producto |-> Bata, Talla |-> TallaM, Cantidad |-> 1,
       PrecioUnitario |-> 50000, TotalVenta |-> 50000]>>

InitEstado ==
    /\ \E estado_pago \in {"Debe", "Abono"} :
          /\ ventas = filas_venta(1, 1, "Ana", CarritoDosLineas, estado_pago)
          /\ pagos = IF estado_pago = "Abono"
                     THEN <<fila_pago(2, 1, 1, 40000)>>
                     ELSE <<>>
          /\ ids = IF estado_pago = "Abono" THEN 2 ELSE 1
    /\ compras = <<>>
    /\ inventario = [encabezado |-> ColumnasInventario, filas |-> <<>>]
    /\ reloj = 1
    /\ InitGestion
    /\ pc = [s \in Sesiones |-> "idle"]
    /\ venta_actual = [s \in Sesiones |-> <<>>]
    /\ compra_actual = [s \in Sesiones |-> <<>>]
    /\ loc = [s \in Sesiones |-> LocInicial]
    /\ vista = [s \in Sesiones |-> VistaInicial]

PasoEstado(s) ==
    \/ CxcLeerVentas(s)
    \/ \E enviado \in BOOLEAN, m \in Montos :
          CxcLeerPagos(s, [enviado |-> enviado, id_venta_pago |-> 1,
                           monto_pago |-> m])
    \/ AbonoPago(s)
    \/ AbonoFindall(s)
    \/ AbonoUpdateCell(s)

NextEstado == \E s \in Sesiones : PasoEstado(s)

SpecEstado == InitEstado /\ [][NextEstado]_vars

----------------------------------------------------------------------------
(* One session that registers sales and purchases of the products of the
   master list. *)

PasoFinal(s) ==
    \/ \E p \in {Bata, BataKids} : AgregarItemVenta(s, p, TallaS, 1, 100000)
    \/ \E e \in EstadosPago, m \in MontosIniciales \cup {0} :
          FinalizarVenta(s, e, m)
    \/ VentaFilas(s)
    \/ \E p \in {Bata, BataKids} : AgregarItemCompra(s, p, TallaS, 1, 50000)
    \/ FinalizarCompra(s, 0)
    \/ actualizar_inventario(s)

NextFinal == PasoFinal("s1")

SpecFinal == Init /\ [][NextFinal]_vars

----------------------------------------------------------------------------
(* One session that registers sales with any deposit the form accepts, and
   payments. *)

\* the deposits of a sale registered as Abono: below the total, the total
Depositos == {60000, 100000}

PasoSaldo(s) ==
    \/ AgregarItemVenta(s, Bata, TallaS, 1, 100000)
    \/ \E e \in EstadosPago, m \in Depositos \cup {0} :
          FinalizarVenta(s, e, m)
    \/ VentaFilas(s)
    \/ actualizar_inventario(s)
    \/ CxcLeerVentas(s)
    \/ \E v \in 1..MaxIds, m \in Montos :
          CxcLeerPagos(s, [enviado |-> TRUE, id_venta_pago |-> v,
                           monto_pago |-> m])
    \/ AbonoPago(s)
    \/ AbonoFindall(s)
    \/ AbonoUpdateCell(s)

NextSaldo == PasoSaldo("s1")

SpecSaldo == Init /\ [][NextSaldo]_vars

\* the same pages while the clock advances between the remote calls
NextPago == PasoSaldo("s1") \/ Tick

SpecPago == Init /\ [][NextPago]_vars

----------------------------------------------------------------------------
(* One session whose remote writes can fail after the first write of an
   operation. *)

\* sheets["ventas"].append_rows(filas_venta) raises: the cart is not emptied
VentaFilasFalla(s) ==
    /\ pc[s] = "venta_filas"
    /\ Excepcion(s)
    /\ UNCHANGED <<hojas, reloj, gestion, ids, venta_actual, compra_actual>>

\* sheets["ventas"].update_cell raises: the cells of cell_list not yet
\* updated stay as they are
AbonoUpdateCellFalla(s) ==
    /\ pc[s] = "abono_update"
    /\ Excepcion(s)
    /\ UNCHANGED <<hojas, reloj, gestion, ids, venta_actual, compra_actual>>

PasoFalla(s) ==
    \/ \E c \in Cantidades : AgregarItemVenta(s, Bata, TallaS, c, 100000)
    \/ \E e \in EstadosPago, m \in MontosIniciales \cup {0} :
          FinalizarVenta(s, e, m)
    \/ VentaFilas(s)
    \/ VentaFilasFalla(s)
    \/ actualizar_inventario(s)
    \/ CxcLeerVentas(s)
    \/ \E v \in 1..MaxIds, m \in Montos :
          CxcLeerPagos(s, [enviado |-> TRUE, id_venta_pago |-> v,
                           monto_pago |-> m])
    \/ AbonoPago(s)
    \/ AbonoFindall(s)
    \/ AbonoUpdateCell(s)
    \/ AbonoUpdateCellFalla(s)

NextFalla == PasoFalla("s1")

SpecFalla == Init /\ [][NextFalla]_vars

\* the first remote call of finalizar_venta_form raises: nothing was written
FinalizarVentaFalla(s) ==
    /\ pc[s] = "idle"
    /\ cliente_final(s) # ""
    /\ venta_actual[s] # <<>>
    /\ Excepcion(s)
    /\ UNCHANGED <<hojas, reloj, gestion, ids, venta_actual, compra_actual>>

\* sheets["compras"].append_rows of finalizar_compra_form raises
FinalizarCompraFalla(s) ==
    /\ pc[s] = "idle"
    /\ proveedor_final(s) # ""
    /\ compra_actual[s] # <<>>
    /\ Excepcion(s)
    /\ UNCHANGED <<hojas, reloj, gestion, ids, venta_actual, compra_actual>>

\* The pages Registrar Venta and Registrar Compra used by two sessions, with
\* remote calls that can fail
PasoCarrito(s) ==
    \/ AgregarItemVenta(s, Bata, TallaS, 1, 100000)
    \/ \E indices \in SUBSET (1..MaxCarrito) : EliminarItemsVenta(s, indices)
    \/ \E e \in EstadosPago, m \in MontosIniciales \cup {0} :
          FinalizarVenta(s, e, m)
    \/ FinalizarVentaFalla(s)
    \/ VentaFilas(s)
    \/ VentaFilasFalla(s)
    \/ AgregarItemCompra(s, Bata, TallaS, 1, 50000)
    \/ \E indices \in SUBSET (1..MaxCarrito) : EliminarItemsCompra(s, indices)
    \/ FinalizarCompra(s, 0)
    \/ FinalizarCompraFalla(s)
    \/ actualizar_inventario(s)

\* a session that only fills and trims its carts
PasoLineas(s) ==
    \/ AgregarItemVenta(s, Bata, TallaS, 1, 100000)
    \/ \E indices \in SUBSET (1..MaxCarrito) : EliminarItemsVenta(s, indices)
    \/ AgregarItemCompra(s, Bata, TallaS, 1, 50000)
    \/ \E indices \in SUBSET (1..MaxCarrito) : EliminarItemsCompra(s, indices)

NextCarrito == PasoCarrito("s1") \/ PasoLineas("s2")

SpecCarrito == Init /\ [][NextCarrito]_vars

\* both sessions finalize
NextCarritoDos == \E s \in Sesiones : PasoCarrito(s)

SpecCarritoDos == Init /\ [][NextCarritoDos]_vars

----------------------------------------------------------------------------
(* One session that registers sales, purchases and payments. *)

PasoEnvio(s) ==
    \/ AgregarItemVenta(s, Bata, TallaS, 1, 100000)
    \/ \E e \in EstadosPago, m \in MontosIniciales \cup {0} :
          FinalizarVenta(s, e, m)
    \/ VentaFilas(s)
    \/ \E c \in Precios : AgregarItemCompra(s, Bata, TallaS, 1, c)
    \/ \E e \in {0, 5000} : FinalizarCompra(s, e)
    \/ actualizar_inventario(s)
    \/ CxcLeerVentas(s)
    \/ \E v \in 1..MaxIds, m \in Montos :
          CxcLeerPagos(s, [enviado |-> TRUE, id_venta_pago |-> v,
                           monto_pago |-> m])
    \/ AbonoPago(s)
    \/ AbonoFindall(s)
    \/ AbonoUpdateCell(s)

NextEnvio == PasoEnvio("s1")

SpecEnvio == Init /\ [][NextEnvio]_vars

----------------------------------------------------------------------------
(* The summary of debts over any logs: the sheets hold rows that earlier     *)
(* runs of the application left, those of the revision without payments,     *)
(* which wrote rows of Ventas of any status and no row of Pagos, included.   *)

FilaVentaCob(id, estado, total) ==
    [ID |-> id, Mes |-> 1, Producto |-> Bata, Talla |-> TallaS,
     Cliente |-> "Ana", Cantidad |-> Num(1), PrecioUnitario |-> Num(total),
     TotalVenta |-> Num(total), EstadoPago |-> estado]

FilasVentaCob ==
    { FilaVentaCob(1, "Debe", 100000), FilaVentaCob(1, "Pagado", 100000),
      FilaVentaCob(2, "Abono", 100000), FilaVentaCob(2, "Pagado", 50000) }

FilasPagoCob ==
    { fila_pago(3, 1, 1, 99990), fila_pago(4, 1, 1, 60000),
      fila_pago(5, 2, 1, 100000), fila_pago(6, 2, 1, 40000) }

InitCob ==
    /\ ventas \in SeqHasta(FilasVentaCob, MaxFilas)
    /\ pagos \in PagosHasta(FilasPagoCob, MaxFilas)
    /\ compras = <<>>
    /\ inventario = [encabezado |-> ColumnasInventario, filas |-> <<>>]
    /\ reloj = 1
    /\ InitGestion
    /\ ids = 0
    /\ pc = [s \in Sesiones |-> "idle"]
    /\ venta_actual = [s \in Sesiones |-> <<>>]
    /\ compra_actual = [s \in Sesiones |-> <<>>]
    /\ loc = [s \in Sesiones |-> LocInicial]
    /\ vista = [s \in Sesiones |-> VistaInicial]

NextCob ==
    \/ CxcLeerVentas("s1")
    \/ CxcLeerPagos("s1", NoEnviado)

SpecCob == InitCob /\ [][NextCob]_vars

----------------------------------------------------------------------------
(* The finance report over any logs, those of the revision without payments  *)
(* included.                                                                 *)

FilaVentaFin(id, mes, estado, total) ==
    [ID |-> id, Mes |-> mes, Producto |-> Bata, Talla |-> TallaS,
     Cliente |-> "Ana", Cantidad |-> Num(1), PrecioUnitario |-> Num(total),
     TotalVenta |-> Num(total), EstadoPago |-> estado]

FilasVentaFin ==
    { FilaVentaFin(1, 1, "Pagado", 100000),
      FilaVentaFin(2, 2, "Abono", 100000),
      FilaVentaFin(2, 2, "Pagado", 50000) }

FilasPagoFin ==
    { fila_pago(3, 1, 1, 60000), fila_pago(4, 2, 2, 60000),
      fila_pago(5, 2, 2, 60000) }

FilaCompraFin(id, mes, costo_total, costo_envio) ==
    [ID |-> id, Mes |-> mes, Producto |-> Bata, Talla |-> TallaS,
     Proveedor |-> "Prov", Cantidad |-> Num(1),
     CostoTotal |-> Num(costo_total), CostoEnvio |-> Num(costo_envio)]

FilasCompraFin ==
    { FilaCompraFin(6, 1, 30000, 5000), FilaCompraFin(7, 2, 20000, 0) }

InitFin ==
    /\ ventas \in SeqHasta(FilasVentaFin, MaxFilas)
    /\ pagos \in PagosHasta(FilasPagoFin, MaxFilas)
    /\ compras \in SeqHasta(FilasCompraFin, MaxFilas)
    /\ inventario = [encabezado |-> ColumnasInventario, filas |-> <<>>]
    /\ reloj = 1
    /\ InitGestion
    /\ ids = 0
    /\ pc = [s \in Sesiones |-> "idle"]
    /\ venta_actual = [s \in Sesiones |-> <<>>]
    /\ compra_actual = [s \in Sesiones |-> <<>>]
    /\ loc = [s \in Sesiones |-> LocInicial]
    /\ vista = [s \in Sesiones |-> VistaInicial]

NextFin ==
    \/ FinLeerVentas("s1")
    \/ FinLeerCompras("s1")
    \/ \E m \in 0..MaxMes : FinLeerPagos("s1", m)

SpecFin == InitFin /\ [][NextFin]_vars

----------------------------------------------------------------------------
(* Claims on the application, checked under Spec. *)

IdsDeVentas == {ventas[i].ID : i \in 1..Len(ventas)}

\* the stock the sheet Inventario stores for a SKU, if it has a row for it
StockGuardado(sku) ==
    {inventario.filas[i].StockActual :
        i \in {j \in 1..Len(inventario.filas) : inventario.filas[j].SKU = sku}}

\* C2: in every state the stock stored for every SKU of the logs is the sum
\* of its purchases minus the sum of its sales in the logs as they are.
C2_StockEnTodoMomento ==
    \A sku \in SKUsDe(ventas) \cup SKUsDe(compras) :
        StockGuardado(sku)
            = {SumaCantidad(compras, sku) - SumaCantidad(ventas, sku)}

RECURSIVE SumaTotalVenta(_, _)
\* the sum of line_total over the rows of Ventas of one sale
SumaTotalVenta(log, id) ==
    IF log = <<>> THEN 0
    ELSE (IF Head(log).ID = id /\ Head(log).TotalVenta[1] = "n"
          THEN Head(log).TotalVenta[2] ELSE 0)
         + SumaTotalVenta(Tail(log), id)

RECURSIVE SumaPagos(_, _)
\* the sum of the amounts of the rows of Pagos of one sale
SumaPagos(log, id) ==
    IF log = <<>> THEN 0
    ELSE (IF Head(log).IDVenta = id /\ Head(log).MontoPagado[1] = "n"
          THEN Head(log).MontoPagado[2] ELSE 0)
         + SumaPagos(Tail(log), id)

NumPagos(id) == Cardinality({j \in 1..Len(pagos) : pagos[j].IDVenta = id})

FilasDe(id) == {i \in 1..Len(ventas) : ventas[i].ID = id}

\* payments of a sale still pending that the form registrar_abono_form
\* registered: all of them but the initial one of a sale registered as Abono
AbonosRegistrados(id) ==
    NumPagos(id)
    - (IF \E i \in FilasDe(id) : ventas[i].EstadoPago = "Abono" THEN 1 ELSE 0)

EnReposo == \A s \in Sesiones : pc[s] = "idle"

\* C7: once the registered payments of a sale bring its balance to 0.01 or
\* less, and no script run is in progress, all its rows are Pagado.
C7_SaldadaEsPagada ==
    EnReposo =>
        \A id \in IdsDeVentas :
            (/\ AbonosRegistrados(id) >= 1
             /\ SumaTotalVenta(ventas, id) - SumaPagos(pagos, id) <= Eps)
            => \A i \in FilasDe(id) : ventas[i].EstadoPago = "Pagado"

RangoEstado(e) == CASE e = "Debe" -> 0 [] e = "Abono" -> 1 [] e = "Pagado" -> 2

\* C8: no step moves the status of a row of Ventas backwards in the order
\* Debe, Abono, Pagado, a row that is Pagado stays Pagado, and the rows a
\* step appends are of a sale that had no row.
C8_EstadoMonotono ==
    [][/\ Len(ventas) <= Len(ventas')
       /\ \A i \in 1..Len(ventas) :
             /\ ventas'[i].ID = ventas[i].ID
             /\ RangoEstado(ventas[i].EstadoPago)
                    <= RangoEstado(ventas'[i].EstadoPago)
             /\ ventas[i].EstadoPago = "Pagado"
                    => ventas'[i].EstadoPago = "Pagado"
       /\ \A j \in (Len(ventas) + 1)..Len(ventas') :
             ventas'[j].ID \notin IdsDeVentas]_vars

\* a sale registered as Abono has been settled by a second payment
C8_Testigo ==
    \E i \in 1..Len(ventas) :
        /\ ventas[i].EstadoPago = "Pagado"
        /\ NumPagos(ventas[i].ID) = 2
        /\ SumaPagos(pagos, ventas[i].ID) = 100000

\* C9: in every state the payments of a sale sum to no more than its total.
C9_PagosNoExcedenTotal ==
    \A id \in IdsDeVentas :
        SumaPagos(pagos, id) <= SumaTotalVenta(ventas, id)

----------------------------------------------------------------------------
(* Claims on the summary of debts, checked under SpecCob. *)

ResumenMostrado(s) == pc[s] = "idle" /\ vista[s].pagina = "cxc"

IdsListados(s) ==
    {vista[s].tabla[i].IDVenta : i \in 1..Len(vista[s].tabla)}

\* C6 as stated: the summary lists exactly the sales whose total over all
\* their rows less their payments is more than 0.01, with that balance.
C6_SaldoDeTodaVenta ==
    \A s \in Sesiones : ResumenMostrado(s) =>
        /\ IdsListados(s)
              = {id \in IdsDeVentas :
                    SumaTotalVenta(ventas, id) - SumaPagos(pagos, id) > Eps}
        /\ \A i \in 1..Len(vista[s].tabla) :
              vista[s].tabla[i].SaldoPendiente
                  = SumaTotalVenta(ventas, vista[s].tabla[i].IDVenta)
                    - SumaPagos(pagos, vista[s].tabla[i].IDVenta)

RECURSIVE SumaTotalPendiente(_, _)
\* the sum of line_total over the rows of one sale that are Debe or Abono
SumaTotalPendiente(log, id) ==
    IF log = <<>> THEN 0
    ELSE (IF /\ Head(log).ID = id
             /\ Head(log).EstadoPago \in {"Debe", "Abono"}
             /\ Head(log).TotalVenta[1] = "n"
          THEN Head(log).TotalVenta[2] ELSE 0)
         + SumaTotalPendiente(Tail(log), id)

IdsPendientes ==
    {ventas[i].ID :
        i \in {j \in 1..Len(ventas) :
                  ventas[j].EstadoPago \in {"Debe", "Abono"}}}

\* C6: the summary has one row for every sale that has a row Debe or Abono
\* and whose balance, the total over those rows less all the payments of the
\* sale (0 without payment), is more than 0.01; the row carries that total,
\* those payments and that balance; no other sale is listed.
C6_SaldoDePendientes ==
    \A s \in Sesiones : ResumenMostrado(s) =>
        /\ IdsListados(s)
              = {id \in IdsPendientes :
                    SumaTotalPendiente(ventas, id) - SumaPagos(pagos, id)
                        > Eps}
        /\ Len(vista[s].tabla) = Cardinality(IdsListados(s))
        /\ \A i \in 1..Len(vista[s].tabla) :
              LET fila == vista[s].tabla[i]
              IN /\ fila.Total_Venta
                        = SumaTotalPendiente(ventas, fila.IDVenta)
                 /\ fila.MontoPagado = SumaPagos(pagos, fila.IDVenta)
                 /\ fila.SaldoPendiente
                        = fila.Total_Venta - fila.MontoPagado

\* the summary leaves out a pending sale whose balance is 0.01 and a sale
\* Pagado without payment
C6_Testigo ==
    /\ ResumenMostrado("s1")
    /\ \E id \in IdsPendientes \ IdsListados("s1") :
          SumaTotalPendiente(ventas, id) - SumaPagos(pagos, id) = Eps
    /\ \E id \in IdsDeVentas \ IdsPendientes : SumaPagos(pagos, id) = 0

----------------------------------------------------------------------------
(* Claims on the finance report, checked under SpecFin. *)

ReportePedido(s) ==
    pc[s] = "idle" /\ vista[s].pagina = "finanzas" /\ vista[s].tabla # <<>>

EnPeriodo(fila, mes) == mes = Todos \/ fila.Mes = mes

RECURSIVE SumaPagosPeriodo(_, _)
\* the sum of the amounts of the payments dated in the period
SumaPagosPeriodo(log, mes) ==
    IF log = <<>> THEN 0
    ELSE (IF EnPeriodo(Head(log), mes) /\ Head(log).MontoPagado[1] = "n"
          THEN Head(log).MontoPagado[2] ELSE 0)
         + SumaPagosPeriodo(Tail(log), mes)

RECURSIVE SumaLegacyPeriodo(_, _)
\* the sum of line_total of the rows Pagado of the period whose sale has no
\* payment at all
SumaLegacyPeriodo(log, mes) ==
    IF log = <<>> THEN 0
    ELSE (IF /\ EnPeriodo(Head(log), mes)
             /\ Head(log).EstadoPago = "Pagado"
             /\ NumPagos(Head(log).ID) = 0
             /\ Head(log).TotalVenta[1] = "n"
          THEN Head(log).TotalVenta[2] ELSE 0)
         + SumaLegacyPeriodo(Tail(log), mes)

\* C10: with sales in the log, for the period selected the report shows as
\* real income the payments dated in the period plus the totals of the sales
\* Pagado of the period that have no payment at all, each counted once.
C10_IngresosReales ==
    \A s \in Sesiones : (ReportePedido(s) /\ ventas # <<>>) =>
        LET reporte == vista[s].tabla[1]
        IN /\ ~vista[s].error
           /\ reporte.total_ingresos_reales
                 = SumaPagosPeriodo(pagos, reporte.mes_seleccionado)
                   + SumaLegacyPeriodo(ventas, reporte.mes_seleccionado)

RECURSIVE SumaCostoPeriodo(_, _)
\* the sum of line_cost over the purchase rows of the period
SumaCostoPeriodo(log, mes) ==
    IF log = <<>> THEN 0
    ELSE (IF EnPeriodo(Head(log), mes) /\ Head(log).CostoTotal[1] = "n"
          THEN Head(log).CostoTotal[2] ELSE 0)
         + SumaCostoPeriodo(Tail(log), mes)

\* the shipping_cost of a purchase: that of its first row of the period
EnvioDeCompra(id, mes) ==
    LET filas == {i \in 1..Len(compras) :
                    compras[i].ID = id /\ EnPeriodo(compras[i], mes)}
        primera == CHOOSE i \in filas : \A j \in filas : i <= j
    IN IF compras[primera].CostoEnvio[1] = "n"
       THEN compras[primera].CostoEnvio[2] ELSE 0

RECURSIVE SumaEnvios(_, _)
\* the shipping_cost of every purchase of a set, each counted once
SumaEnvios(idsCompra, mes) ==
    IF idsCompra = {} THEN 0
    ELSE LET id == CHOOSE x \in idsCompra : TRUE
         IN EnvioDeCompra(id, mes) + SumaEnvios(idsCompra \ {id}, mes)

IdsDeComprasPeriodo(mes) ==
    {compras[i].ID :
        i \in {j \in 1..Len(compras) : EnPeriodo(compras[j], mes)}}

\* C11: with purchases in the log, for the period selected the report shows
\* as total expense the line costs of the purchase rows of the period plus
\* the shipping cost of every purchase of the period counted once.
C11_GastosTotales ==
    \A s \in Sesiones : (ReportePedido(s) /\ compras # <<>>) =>
        LET reporte == vista[s].tabla[1]
        IN /\ ~vista[s].error
           /\ reporte.total_gastos
                 = SumaCostoPeriodo(compras, reporte.mes_seleccionado)
                   + SumaEnvios(
                         IdsDeComprasPeriodo(reporte.mes_seleccionado),
                         reporte.mes_seleccionado)

RECURSIVE SumaSaldosPendientes(_)
\* the sum of the balances the summary of debts keeps (those above 0.01)
\* over a set of pending sales
SumaSaldosPendientes(idsVenta) ==
    IF idsVenta = {} THEN 0
    ELSE LET id == CHOOSE x \in idsVenta : TRUE
             saldo_pendiente ==
                 SumaTotalPendiente(ventas, id) - SumaPagos(pagos, id)
         IN (IF saldo_pendiente > Eps THEN saldo_pendiente ELSE 0)
            + SumaSaldosPendientes(idsVenta \ {id})

\* C12: whatever month is selected, every report shown gives as total
\* receivable the sum, over the pending sales of the whole history, of the
\* balances above 0.01 that the summary of debts computes.
C12_PorCobrarIgualResumen ==
    \A s \in Sesiones : (ReportePedido(s) /\ ~vista[s].error) =>
        vista[s].tabla[1].total_por_cobrar
            = SumaSaldosPendientes(IdsPendientes)

----------------------------------------------------------------------------
(* Further claims on actualizar_inventario, checked under SpecInv. *)

FilasDeLogs ==
    {ventas[i] : i \in 1..Len(ventas)} \cup {compras[i] : i \in 1..Len(compras)}

ContieneSep(nombre) == \E i \in 1..Len(nombre) : nombre[i] = Sep

C13_TestigoFallo ==
    /\ vista["s1"].error
    /\ \E fila \in FilasDeLogs : ContieneSep(fila.Talla)

----------------------------------------------------------------------------
(* Claims on overlapping recalculations, checked under SpecRec. *)

EnRecalculo(s) ==
    pc[s] \in {"inv_compras", "inv_ventas", "inv_clear", "inv_update"}

\* the write step of the call of s, completed
EscribeInventario(s) ==
    /\ pc[s] = "inv_update"
    /\ pc'[s] # "inv_update"
    /\ ~vista'[s].error

\* C14: when the write step of a call completes and no other call is in
\* progress, the sheet Inventario is the header and exactly the rows that
\* this call, the last writer, computed.
C14_UltimoEscritorGana ==
    [][\A s \in Sesiones :
          (/\ EscribeInventario(s)
           /\ \A o \in Sesiones \ {s} : ~EnRecalculo(o))
          => inventario' = [encabezado |-> ColumnasInventario,
                            filas |-> loc[s].inventario_df]]_vars

----------------------------------------------------------------------------
(* Claims on the submissions of one session, checked under SpecEnvio. *)

IdsDe(hoja) == {hoja[i].ID : i \in 1..Len(hoja)}

\* the rows hoja_nueva holds after those of hoja
Anexadas(hoja, hoja_nueva) ==
    SubSeq(hoja_nueva, Len(hoja) + 1, Len(hoja_nueva))

\* hoja_nueva is hoja followed by n rows, all under one ID no row of hoja has
AnexaBajoIdNuevo(hoja, hoja_nueva, n) ==
    /\ Len(hoja_nueva) = Len(hoja) + n
    /\ SubSeq(hoja_nueva, 1, Len(hoja)) = hoja
    /\ Cardinality(IdsDe(Anexadas(hoja, hoja_nueva))) = 1
    /\ IdsDe(Anexadas(hoja, hoja_nueva)) \cap IdsDe(hoja) = {}

\* the step of s that sends the sale rows, the purchase rows, the payment row
EnviaVenta(s) ==
    /\ pc[s] \in {"idle", "venta_filas"}
    /\ pc'[s] = "inv_compras"
    /\ loc'[s].origen = "venta"

EnviaCompra(s) ==
    /\ pc[s] = "idle"
    /\ pc'[s] = "inv_compras"
    /\ loc'[s].origen = "compra"

EnviaPago(s) == pc[s] = "abono_pago" /\ pc'[s] # "abono_pago"

\* C16: every submission of a sale, a purchase or a payment appends its rows
\* under an ID no earlier row has, whatever the sheet already holds: rows of
\* the same contents already there do not stop it.
C16_SinClaveDeIdempotencia ==
    [][\A s \in Sesiones :
          /\ EnviaVenta(s) =>
                AnexaBajoIdNuevo(ventas, ventas', Len(venta_actual[s]))
          /\ EnviaCompra(s) =>
                AnexaBajoIdNuevo(compras, compras', Len(compra_actual[s]))
          /\ EnviaPago(s) =>
                /\ AnexaBajoIdNuevo(pagos, pagos', 1)
                /\ pagos'[Len(pagos')].IDVenta = loc[s].id_venta
                /\ pagos'[Len(pagos')].MontoPagado = Num(loc[s].monto)]_vars

\* hoja holds two rows that differ in their ID only
Duplicadas(hoja) ==
    \E i, j \in 1..Len(hoja) :
        /\ i < j
        /\ hoja[i].ID # hoja[j].ID
        /\ [hoja[i] EXCEPT !.ID = hoja[j].ID] = hoja[j]

\* the same payment has been submitted twice
C16_Testigo == Duplicadas(pagos) /\ \A s \in Sesiones : pc[s] = "idle"

\* the same sale, the same purchase has been submitted twice
C16_TestigoVenta == Duplicadas(ventas)

C16_TestigoCompra == Duplicadas(compras)

----------------------------------------------------------------------------
(* Claims on cells that are not numbers, checked under SpecNum. *)

\* a cell with zero in the place of a text
Cero(c) == IF c[1] = "n" THEN c ELSE Num(0)

VentasCero ==
    [i \in 1..Len(ventas) |->
        [ventas[i] EXCEPT !.Cantidad = Cero(@), !.PrecioUnitario = Cero(@),
                          !.TotalVenta = Cero(@)]]

ComprasCero ==
    [i \in 1..Len(compras) |->
        [compras[i] EXCEPT !.Cantidad = Cero(@), !.CostoTotal = Cero(@),
                           !.CostoEnvio = Cero(@)]]

PagosCero ==
    [i \in 1..Len(pagos) |-> [pagos[i] EXCEPT !.MontoPagado = Cero(@)]]

HayTexto(log, campo) == \E i \in 1..Len(log) : log[i][campo] = Texto

\* the three outputs over the logs with zero in the place of every text
InventarioCero ==
    inventario_df(merge_outer(stock_por_sku(ComprasCero),
                              stock_por_sku(VentasCero)), 0)

ResumenCero == resumen_deudas(VentasCero, PagosCero)

FinanzasCero(mes_seleccionado) ==
    IF \/ sin_columnas(PagosCero, mes_seleccionado)
       \/ sin_columnas(VentasCero, mes_seleccionado)
       \/ sin_columnas(ComprasCero, mes_seleccionado)
    THEN [error |-> TRUE,
          tabla |-> <<[mes_seleccionado |-> mes_seleccionado]>>]
    ELSE [error |-> FALSE,
          tabla |-> <<metricas(VentasCero, ComprasCero, PagosCero,
                               mes_seleccionado)>>]

C19_TestigoCobrar ==
    /\ vista["s1"].pagina = "cxc"
    /\ HayTexto(pagos, "MontoPagado")
    /\ HayTexto(ventas, "TotalVenta")
    /\ \E i \in 1..Len(vista["s1"].tabla) :
          vista["s1"].tabla[i].SaldoPendiente = 60000

\* the report shows the expenses over a purchase whose costs are texts
C19_TestigoFinanzas ==
    /\ vista["s1"].pagina = "finanzas"
    /\ ~vista["s1"].error
    /\ vista["s1"].tabla # <<>>
    /\ HayTexto(compras, "CostoTotal")
    /\ HayTexto(compras, "CostoEnvio")
    /\ vista["s1"].tabla[1].total_gastos = 55000

----------------------------------------------------------------------------
(* Claims on required fields, checked under SpecGestion. *)

\* the step of s is a submission of a form of Gestión with its name, or the
\* sizes of a product, left empty
EnvioIncompleto(s) ==
    /\ pc[s] = "idle"
    /\ vista'[s].pagina = "gestion"
    /\ vista'[s].tabla # <<>>
    /\ \/ vista'[s].tabla[1].nombre = ""
       \/ /\ vista'[s].tabla[1].formulario = "producto"
          /\ vista'[s].tabla[1].tallas = ""

\* C18: a product submitted with an empty name or empty sizes, a client or a
\* supplier submitted with an empty name, leaves every sheet and the cache of
\* the master data as they were; while no client (no supplier) is chosen, no
\* row is appended to Ventas (to Compras).
C18_CampoObligatorio ==
    [][\A s \in {"s1"} :
          /\ EnvioIncompleto(s) =>
                /\ hojas' = hojas
                /\ maestros' = maestros
                /\ cache_data' = cache_data
          /\ cliente_final(s) = "" => ventas' = ventas /\ pagos' = pagos
          /\ proveedor_final(s) = "" => compras' = compras]_vars

\* a client form left empty has been answered with the warning, and the
\* sheets hold rows the submission left alone
C18_Testigo ==
    /\ vista["s1"].pagina = "gestion"
    /\ vista["s1"].tabla # <<>>
    /\ vista["s1"].tabla[1].formulario = "cliente"
    /\ vista["s1"].tabla[1].nombre = ""
    /\ vista["s1"].tabla[1].aviso
    /\ Len(maestros.clientes) > 1
    /\ cache_data = maestros

\* a product form without sizes has been answered with the warning
C18_TestigoProducto ==
    /\ vista["s1"].pagina = "gestion"
    /\ vista["s1"].tabla # <<>>
    /\ vista["s1"].tabla[1].formulario = "producto"
    /\ vista["s1"].tabla[1].nombre # ""
    /\ vista["s1"].tabla[1].tallas = ""

\* blanks typed as the new client leave no client chosen, with a sale of an
\* earlier choice registered and lines in the cart
C18_TestigoSinCliente ==
    /\ cliente_final("s1") = ""
    /\ entrada["s1"].cliente_existente # ""
    /\ pc["s1"] = "idle"
    /\ ventas # <<>>
    /\ venta_actual["s1"] # <<>>

C18_TestigoSinProveedor ==
    /\ proveedor_final("s1") = ""
    /\ pc["s1"] = "idle"
    /\ compras # <<>>
    /\ compra_actual["s1"] # <<>>

----------------------------------------------------------------------------
(* Claims on the rows of the logs, checked under SpecEnvio. *)

\* hoja_nueva begins with the rows of hoja, as they were
Conserva(hoja, hoja_nueva) ==
    /\ Len(hoja_nueva) >= Len(hoja)
    /\ SubSeq(hoja_nueva, 1, Len(hoja)) = hoja

\* C20: no step removes or changes a row of Compras or of Pagos, and no step
\* removes a row of Ventas or changes of it anything but its Estado Pago.
C20_SoloSeAnexa ==
    [][/\ Conserva(compras, compras')
       /\ Conserva(pagos, pagos')
       /\ Len(ventas') >= Len(ventas)
       /\ \A i \in 1..Len(ventas) :
             [ventas'[i] EXCEPT !.EstadoPago = ventas[i].EstadoPago]
                 = ventas[i]]_vars

\* a sale registered as Debe has been settled by two payments and its row
\* marked Pagado, with rows in the three logs
C20_Testigo ==
    /\ EnReposo
    /\ \E i \in 1..Len(ventas) :
          /\ ventas[i].EstadoPago = "Pagado"
          /\ NumPagos(ventas[i].ID) >= 2

\* a purchase registered after a sale and a payment
C20_TestigoCompra ==
    /\ EnReposo
    /\ ventas # <<>> /\ pagos # <<>> /\ compras # <<>>

----------------------------------------------------------------------------
(* Claims on failed writes, checked under SpecFalla. *)

\* the step of s at the append of the sale rows, at an update of the status,
\* that raised
FallaVenta(s) == pc[s] = "venta_filas" /\ vista'[s].error

FallaEstado(s) == pc[s] = "abono_update" /\ vista'[s].error

\* Pagos holds a payment of sale id, Ventas holds no row of it and no run is
\* about to append one
Huerfano(id) ==
    /\ NumPagos(id) >= 1
    /\ FilasDe(id) = {}
    /\ \A s \in Sesiones : ~(pc[s] = "venta_filas" /\ loc[s].id_venta = id)

\* C17: a step that fails after the payment row of its operation was
\* appended leaves every sheet as it was, payment row included, and ends the
\* run, which does not attempt the step again; a payment left without its
\* sale rows stays so.
C17_SinReversionNiReintento ==
    [][/\ \A s \in Sesiones :
            (FallaVenta(s) \/ FallaEstado(s)) =>
                /\ hojas' = hojas
                /\ \E j \in 1..Len(pagos') :
                      pagos'[j].IDVenta = loc[s].id_venta
                /\ pc'[s] = "idle"
                /\ loc'[s] = LocInicial
        /\ \A id \in 1..(MaxIds + 1) : Huerfano(id) => Huerfano(id)']_vars

\* the append of the sale rows failed: the payment is there, the sale is not,
\* and the cart still holds its lines
C17_Testigo ==
    /\ pc["s1"] = "idle"
    /\ vista["s1"].error
    /\ venta_actual["s1"] # <<>>
    /\ \E id \in 1..MaxIds : Huerfano(id)

\* the update of the status failed: the payments cover the sale, whose rows
\* are not marked Pagado
C17_TestigoEstado ==
    /\ pc["s1"] = "idle"
    /\ vista["s1"].error
    /\ \E id \in IdsDeVentas :
          /\ SumaTotalVenta(ventas, id) - SumaPagos(pagos, id) <= Eps
          /\ \E i \in FilasDe(id) : ventas[i].EstadoPago # "Pagado"

----------------------------------------------------------------------------
(* Claims on a recalculation and a reader, checked under SpecLector. *)

SinSeparador ==
    \A fila \in FilasDeLogs :
        ~ContieneSep(fila.Producto) /\ ~ContieneSep(fila.Talla)

\* the call of s has failed at its write step: with names free of the
\* separator nothing else raises
FalloAlEscribir(s) == pc[s] = "idle" /\ vista[s].error /\ SinSeparador

\* C15: between the clear and the write of a call, and after a call whose
\* write failed, the sheet Inventario is empty: the rows it held before the
\* call are not restored.
C15_ClearNoAtomico ==
    (pc["s1"] = "inv_update" \/ FalloAlEscribir("s1"))
        => inventario = [encabezado |-> <<>>, filas |-> <<>>]

\* the reader has been shown an empty table, which the sheet is only from
\* the clear of a call on, and the call stands before its write
C15_Testigo ==
    /\ pc["s1"] = "inv_update"
    /\ loc["s1"].inventario_df # <<>>
    /\ vista["s2"].pagina = "inventario"
    /\ vista["s2"].tabla = <<>>

\* the reader has been shown the empty table a failed write left
C15_TestigoFallo ==
    /\ FalloAlEscribir("s1")
    /\ vista["s2"].pagina = "inventario"
    /\ vista["s2"].tabla = <<>>

----------------------------------------------------------------------------
(* Claims on the recalculation a finalization ends in, checked under
   SpecFinal. *)

\* the sheet Inventario holds for every SKU of the logs its net stock
InventarioAlDia ==
    \A sku \in SKUsDe(ventas) \cup SKUsDe(compras) :
        StockGuardado(sku)
            = {SumaCantidad(compras, sku) - SumaCantidad(ventas, sku)}

\* C21: with one session acting, whenever no run is in progress (every
\* finalization made has ended) the sheet Inventario reflects all the rows
\* appended to the logs.
C21_InventarioTrasFinalizar == pc["s1"] = "idle" => InventarioAlDia

\* the same over logs whose names are free of the separator
C21_SinSeparador == (pc["s1"] = "idle" /\ SinSeparador) => InventarioAlDia

\* a sale and a purchase have been finalized and the inventory shows both
C21_TestigoAlDia ==
    /\ pc["s1"] = "idle"
    /\ ventas # <<>> /\ compras # <<>>
    /\ InventarioAlDia

----------------------------------------------------------------------------
(* Claims on the status and the balance of a sale, checked under SpecSaldo. *)

SaldoDe(id) == SumaTotalVenta(ventas, id) - SumaPagos(pagos, id)

\* C22: in every state with no run in progress, every sale whose balance is
\* 0.01 or less has all its rows marked Pagado.
C22_EstadoSegunSaldo ==
    EnReposo =>
        \A id \in IdsDeVentas :
            SaldoDe(id) <= Eps
                => \A i \in FilasDe(id) : ventas[i].EstadoPago = "Pagado"

\* the same for the sales not registered as Abono with the whole total
C22_SinDepositoTotal ==
    EnReposo =>
        \A id \in IdsDeVentas :
            (/\ SaldoDe(id) <= Eps
             /\ ~(\E i \in FilasDe(id) : ventas[i].EstadoPago = "Abono"
                     /\ NumPagos(id) = 1))
                => \A i \in FilasDe(id) : ventas[i].EstadoPago = "Pagado"

\* a sale registered as Debe or Abono has been settled and marked
C22_TestigoMarcada ==
    /\ EnReposo
    /\ \E id \in IdsDeVentas :
          /\ NumPagos(id) >= 2
          /\ SaldoDe(id) <= Eps
          /\ \A i \in FilasDe(id) : ventas[i].EstadoPago = "Pagado"

\* ---------------------------------------------------------------------
\* C23: the master-data cache is cleared after every write to a master list
\* made through the application, so the next load of master data after
\* such a write is never served from a cache filled before that write:
\* whenever a run is given the master lists, they are the lists the sheets
\* hold at that moment.
SirveListas(s) ==
    /\ pc[s] = "idle"
    /\ pc'[s] = "idle"
    /\ vista'[s].pagina = "listas"
    /\ vista'[s] # vista[s]

C23_CargaTrasEscritura ==
    [][\A s \in Sesiones :
          SirveListas(s) => vista'[s].tabla = <<maestros>>]_vars

\* The same property outside the interval between an append to a master
\* sheet and the clear that follows it
SinLimpiezaPendiente == \A s \in Sesiones : pc[s] # "cache_clear"

C23_CargaTrasLimpieza ==
    [][\A s \in Sesiones :
          (SirveListas(s) /\ SinLimpiezaPendiente)
              => vista'[s].tabla = <<maestros>>]_vars

\* A session has been shown the lists with the client another session added
C23_TestigoListaNueva ==
    /\ vista["s2"].pagina = "listas"
    /\ vista["s2"].tabla = <<maestros>>
    /\ Len(maestros.clientes) > Len(MaestrosIniciales.clientes)
    /\ vista["s1"].pagina = "gestion"

\* ---------------------------------------------------------------------
\* C24: all the rows of Ventas that share one ID carry the same Estado Pago
\* in every reachable state, also while a settlement updates the rows one
\* cell at a time.
UnEstado(id) ==
    \A i, j \in FilasDe(id) : ventas[i].EstadoPago = ventas[j].EstadoPago

C24_UnEstadoPorVenta == \A id \in IdsDeVentas : UnEstado(id)

\* With no script run in progress the rows of a sale do share their status
C24_UnEstadoEnReposo == EnReposo => C24_UnEstadoPorVenta

\* A settlement has marked both rows of the sale
C24_TestigoSaldada ==
    /\ EnReposo
    /\ Cardinality(FilasDe(1)) = 2
    /\ \A i \in FilasDe(1) : ventas[i].EstadoPago = "Pagado"

\* ---------------------------------------------------------------------
\* C25: a session's cart is emptied only by a successful finalization or by
\* the removal of its lines; the step that appends the rows of a sale (of a
\* purchase) finds the cart of that session with at least one line, appends
\* one row per line and leaves that cart empty, the other cart of the
\* session and the carts of the other sessions as they were; a run that
\* ended in an exception has left the carts of its session unchanged.
QuitaLineas(s) == pc[s] = "idle" /\ pc' = pc /\ hojas' = hojas

OtrosCarritos(s) ==
    \A t \in Sesiones \ {s} :
        /\ venta_actual'[t] = venta_actual[t]
        /\ compra_actual'[t] = compra_actual[t]

CarritoVenta(s) ==
    /\ (venta_actual[s] # <<>> /\ venta_actual'[s] = <<>>)
          => (EnviaVenta(s) \/ QuitaLineas(s))
    /\ EnviaVenta(s) =>
          /\ venta_actual[s] # <<>>
          /\ venta_actual'[s] = <<>>
          /\ Len(ventas') = Len(ventas) + Len(venta_actual[s])
          /\ compra_actual'[s] = compra_actual[s]
          /\ OtrosCarritos(s)

CarritoCompra(s) ==
    /\ (compra_actual[s] # <<>> /\ compra_actual'[s] = <<>>)
          => (EnviaCompra(s) \/ QuitaLineas(s))
    /\ EnviaCompra(s) =>
          /\ compra_actual[s] # <<>>
          /\ compra_actual'[s] = <<>>
          /\ Len(compras') = Len(compras) + Len(compra_actual[s])
          /\ venta_actual'[s] = venta_actual[s]
          /\ OtrosCarritos(s)

CarritoTrasFallo(s) ==
    vista'[s].error =>
        /\ venta_actual'[s] = venta_actual[s]
        /\ compra_actual'[s] = compra_actual[s]

C25_Carritos ==
    [][\A s \in Sesiones :
          CarritoVenta(s) /\ CarritoCompra(s) /\ CarritoTrasFallo(s)]_vars

\* A sale of s1 has just been appended: its sale cart is empty, its purchase
\* cart and the sale cart of s2 hold their lines
C25_TestigoFinalizada ==
    /\ pc["s1"] = "inv_compras"
    /\ loc["s1"].origen = "venta"
    /\ ventas # <<>>
    /\ venta_actual["s1"] = <<>>
    /\ compra_actual["s1"] # <<>>
    /\ venta_actual["s2"] # <<>>

\* The append of the sale rows of s1 failed after its payment was appended:
\* the cart still holds the lines
C25_TestigoFallo ==
    /\ pc["s1"] = "idle"
    /\ vista["s1"].error
    /\ venta_actual["s1"] # <<>>
    /\ ventas = <<>>
    /\ pagos # <<>>

\* ---------------------------------------------------------------------
\* C26: when the rows of a sale are appended, the sheet Pagos holds for its
\* ID exactly one payment of the cart total if the sale is registered as
\* Pagado, exactly one payment of the initial deposit, between 0.01 and the
\* cart total, if it is registered as Abono, and none if it is registered
\* as Debe; the payment carries the ID and the date of the sale rows.
FilasNuevas == SubSeq(ventas', Len(ventas) + 1, Len(ventas'))

PagosDe(log, id) == {i \in 1..Len(log) : log[i].IDVenta = id}

PagoSegunEstado(nuevas, registrados) ==
    LET id == nuevas[1].ID
        estado == nuevas[1].EstadoPago
        total == SumaTotalVenta(nuevas, id)
        ps == PagosDe(registrados, id)
    IN /\ estado = "Pagado" =>
             /\ Cardinality(ps) = 1
             /\ \A i \in ps : registrados[i].MontoPagado = Num(total)
       /\ estado = "Abono" =>
             /\ Cardinality(ps) = 1
             /\ \A i \in ps :
                   /\ registrados[i].MontoPagado[1] = "n"
                   /\ MontoMinimo <= registrados[i].MontoPagado[2]
                   /\ registrados[i].MontoPagado[2] <= total
       /\ estado = "Debe" => ps = {}
       /\ \A i \in ps : registrados[i].Mes = nuevas[1].Mes

C26_PagoSegunEstado ==
    [][\A s \in Sesiones :
          EnviaVenta(s) => PagoSegunEstado(FilasNuevas, pagos')]_vars

\* A sale registered as Abono was appended after the clock advanced past
\* the date of its initial payment
C26_TestigoAbono ==
    /\ pc["s1"] = "inv_compras"
    /\ loc["s1"].origen = "venta"
    /\ ventas # <<>>
    /\ ventas[Len(ventas)].EstadoPago = "Abono"
    /\ ventas[Len(ventas)].Mes < reloj
    /\ PagosDe(pagos, ventas[Len(ventas)].ID) # {}

====
